---- MODULE Spec2Model ----
(***************************************************************************)
(* A model of the gh-jira plugin (bin/jira.js): the command pipelines      *)
(* new, update, comment, transition and the interactive transition menu,   *)
(* each a chain of asynchronous remote calls run with async.series.        *)
(*                                                                         *)
(* A remote call is issued by the step that precedes it and answered by a  *)
(* callback action; the answer (a listing, an entity or a remote error)    *)
(* is chosen when the callback runs.  Everything a callback does           *)
(* synchronously, the issue of the next call included, is part of the      *)
(* same action.                                                            *)
(***************************************************************************)
EXTENDS Integers, Sequences, FiniteSets, TLC

VARIABLES
    options,    \* instance.options, shared by every command of the invocation
    jiraConfig, \* config.plugins.jira
    pc,         \* per pipeline: the remote call or prompt it is waiting for
    loc,        \* per pipeline: the local variables of its closure
    calls,      \* per command: the remote calls issued so far, in order
    prompts,    \* per command: the prompts issued so far, in order
    cbCount,    \* per command: how often run's completion callback was called
    cbErr,      \* per command: the err the completion callback received
    answers,    \* per command: what each answered remote call answered
    failed,     \* per command: the first error a step of the command reported
    opened,     \* the issue numbers opened in the browser
    crashed,    \* an uncaught TypeError ended the process
    assigning,  \* the assign action: its PUT requests and what it logged
    input,      \* the argument of the function under study
    output,     \* the results of its successive applications
    git,        \* what git answers: the current branch, the commit messages
    given,      \* the options as the command line gave them
    log         \* what run itself has logged: warnings, the setup's messages

vars == <<options, jiraConfig, pc, loc, calls, prompts, cbCount, cbErr,
          answers, failed, opened, crashed, assigning, input, output, git,
          given,
          log>>

-----------------------------------------------------------------------------
(* Bounds *)

MaxListLen == 2     \* longest listing a remote listing call answers with
MaxApplications == 2    \* how often a function under study is applied again

-----------------------------------------------------------------------------
(* JavaScript values.  A payload is a tree of objects, arrays and scalar   *)
(* leaves; "" stands for an option that is '' or was never given.          *)

Str(s) == [s |-> s]
Txt(t) == [txt |-> t]
Bool(b) == [b |-> b]
Obj(f) == [o |-> f]
Arr(q) == [a |-> q]
Undef == [u |-> TRUE]

IsObj(v) == DOMAIN v = {"o"}
IsArr(v) == DOMAIN v = {"a"}
Entity(name, id) == [name |-> name, id |-> id]

EntityValue(e) == Obj(("name" :> Str(e.name)) @@ ("id" :> Str(e.id)))

Put(v, k, x) == Obj((k :> x) @@ v.o)

Null == "null"      \* the err argument of a callback that reports no error

SeqsUpTo(S, n) == UNION {[1..k -> S] : k \in 0..n}

-----------------------------------------------------------------------------
(* Messages *)

NoIssueType == "No issue type found, try --type \"Bug\"."
NoComponent == "No component found, try --component \"JavaScript\"."
NoPriority == "No priority found, try --priority \"Minor\"."
NoVersion == "No version found, try --version \"0.1.0\"."

InvalidTransition(name) ==
    "\"" \o name \o "\" is not a valid transition, try another action."

RemoteError(api) == "remote error: " \o api

CANCEL_MESSAGE == "Cancel"
ASSIGN_TO_ME_MESSAGE == "Assign to me"
ASSIGN_TO_SOMEONE_MESSAGE == "Assign to"
OPEN_ISSUE_IN_BROWSER_MESSAGE == "Open in browser"

ACTION_ISSUE_ASSIGN == "ISSUE_ASSIGN"
ACTION_ISSUE_OPEN_IN_BROWSER == "ISSUE_OPEN_IN_BROWSER"

-----------------------------------------------------------------------------
(* Pure functions *)

\* findFirstArrayValue_ with key 'name': the first value whose name is
\* strictly equal to the search, undefined when there is none.
FindFirstIgnoringNameMutant(values, search) ==
    IF values = <<>> THEN Undef ELSE values[1]

\* A variant that compares the names folded to lower case.
FindFirstCaseFoldedMutant(values, search) ==
    LET Lower(n) == CASE n = "Bug" -> "bug"
                      [] n = "Bugfix" -> "bugfix"
                      [] OTHER -> n
    IN  IF \E i \in 1..Len(values) : Lower(values[i].name) = Lower(search)
        THEN values[CHOOSE i \in 1..Len(values) :
                       /\ Lower(values[i].name) = Lower(search)
                       /\ \A j \in 1..(i - 1) :
                              Lower(values[j].name) # Lower(search)]
        ELSE Undef

FindFirstArrayValue(values, search) ==
    IF \E i \in 1..Len(values) : values[i].name = search
    THEN values[CHOOSE i \in 1..Len(values) :
                   /\ values[i].name = search
                   /\ \A j \in 1..(i - 1) : values[j].name # search]
    ELSE Undef

\* logger.applyReplacements with one configured rule, k -> [k]: every
\* occurrence of the pattern is rewritten, also inside an earlier rewrite.
RECURSIVE ApplyReplacements(_)
ApplyReplacements(t) ==
    IF t = <<>> THEN <<>>
    ELSE (IF Head(t) = "k" THEN <<"[", "k", "]">> ELSE <<Head(t)>>)
         \o ApplyReplacements(Tail(t))

Signature == <<"sig">>
ConfigMarkdown == TRUE

\* A variant that appends no signature.
ExpandCommentNoSignatureMutant(comment) ==
    IF ConfigMarkdown THEN <<"{markdown}">> \o comment \o <<"{markdown}">>
    ELSE comment

\* expandComment_: the signature is appended, the whole wrapped in
\* {markdown} when config.markdown is set.
ExpandComment(comment) ==
    LET expanded == comment \o Signature
    IN  IF ConfigMarkdown THEN <<"{markdown}">> \o expanded \o <<"{markdown}">>
        ELSE expanded

\* logger.compileTemplate on one string: a reference to an option or to the
\* plugin configuration is replaced by its value, other text is kept.
CompileTemplate(s, opts, cfg) ==
    CASE s = "{{options.assignee}}" -> opts.assignee
      [] s = "{{jira.user}}" -> cfg.user
      [] OTHER -> s

\* compileObjectValuesTemplate_: JSON.stringify, compileTemplate, JSON.parse.
\* Every string leaf is compiled; a key holding undefined is dropped by
\* JSON.stringify.
RECURSIVE CompileObjectValuesTemplate(_, _, _)
CompileObjectValuesTemplate(v, opts, cfg) ==
    CASE IsObj(v) ->
            Obj([k \in {x \in DOMAIN v.o : v.o[x] # Undef} |->
                    CompileObjectValuesTemplate(v.o[k], opts, cfg)])
      [] IsArr(v) ->
            Arr([i \in 1..Len(v.a) |->
                    CompileObjectValuesTemplate(v.a[i], opts, cfg)])
      [] DOMAIN v = {"s"} -> Str(CompileTemplate(v.s, opts, cfg))
      [] DOMAIN v = {"txt"} ->
            Txt([i \in 1..Len(v.txt) |-> CompileTemplate(v.txt[i], opts, cfg)])
      [] OTHER -> v

\* deleteObjectEmptyValues_: a value of type 'object' is walked, a scalar
\* that is undefined or '' is deleted from its holder (in an array the
\* deleted index stays behind as a hole).
IsEmptyScalar(v) == v = Undef \/ v = Str("") \/ v = Txt(<<>>)

DeleteObjectEmptyValuesShallowMutant(v) ==
    IF IsObj(v)
    THEN Obj([k \in {x \in DOMAIN v.o : ~IsEmptyScalar(v.o[x])} |-> v.o[k]])
    ELSE v

RECURSIVE DeleteObjectEmptyValues(_)
DeleteObjectEmptyValues(v) ==
    CASE IsObj(v) ->
            Obj([k \in {x \in DOMAIN v.o : ~IsEmptyScalar(v.o[x])} |->
                    DeleteObjectEmptyValues(v.o[k])])
      [] IsArr(v) ->
            Arr([i \in 1..Len(v.a) |->
                    IF IsEmptyScalar(v.a[i]) THEN Undef
                    ELSE DeleteObjectEmptyValues(v.a[i])])
      [] OTHER -> v

-----------------------------------------------------------------------------
(* Pipelines.  A command (a flag of the invocation) runs one pipeline; the  *)
(* menu of the transition command runs a nested update or transition.      *)

Commands == {"comment", "new", "transition", "update"}

Pipelines == {"comment", "new", "transition", "update", "menu", "menu_update"}

PayloadPipelines == {"new", "update", "menu_update"}

Cmd(p) == IF p \in {"menu", "menu_update"} THEN "transition" ELSE p

EmptyLoc ==
    [issueType |-> Undef, project |-> Undef, component |-> Undef,
     priority |-> Undef, version |-> Undef, payload |-> Undef,
     number |-> "", name |-> "", transitionConfig |-> Undef,
     transition |-> Undef, transitions |-> <<>>, issue |-> Undef,
     ops |-> <<>>, choices |-> <<>>]

NotFailed == [at |-> -1, err |-> Null]

\* The program's state as one record, so that the synchronous part of a
\* handler is the composition of the functions that model its statements.
S == [options |-> options, jiraConfig |-> jiraConfig, pc |-> pc, loc |-> loc,
      calls |-> calls, prompts |-> prompts, cbCount |-> cbCount,
      cbErr |-> cbErr, answers |-> answers, failed |-> failed,
      opened |-> opened, crashed |-> crashed, assigning |-> assigning,
      log |-> log]

Become(s) ==
    /\ options' = s.options
    /\ jiraConfig' = s.jiraConfig
    /\ pc' = s.pc
    /\ loc' = s.loc
    /\ calls' = s.calls
    /\ prompts' = s.prompts
    /\ cbCount' = s.cbCount
    /\ cbErr' = s.cbErr
    /\ answers' = s.answers
    /\ failed' = s.failed
    /\ opened' = s.opened
    /\ crashed' = s.crashed
    /\ assigning' = s.assigning
    /\ log' = s.log
    /\ UNCHANGED <<input, output, git, given>>

\* A remote call of the jira API is issued; the pipeline waits for its answer.
Call(s, p, api, key, payload) ==
    [s EXCEPT !.calls[Cmd(p)] =
                  Append(@, [api |-> api, key |-> key, payload |-> payload]),
              !.pc[p] = api]

\* The answer of a remote call: an error, or the data.
Answers(api, D) ==
    {[err |-> RemoteError(api), data |-> Undef]}
        \cup {[err |-> Null, data |-> d] : d \in D}

\* Whether a listing holds an element of the name asked for.
Lists(r, name) ==
    r.err = Null /\ \E i \in 1..Len(r.data) : r.data[i].name = name

\* Bookkeeping, no statement of the program: the remote call api of command
\* Cmd(p) answered r (matched: its listing held the name asked for) and the
\* step that made the call reports err to its callback.
Answered(s, p, api, r, matched, err) ==
    LET s1 == [s EXCEPT !.answers[Cmd(p)] =
                            Append(@, [api |-> api, err |-> r.err,
                                       matched |-> matched])]
    IN  IF err # Null /\ s.failed[Cmd(p)].at = -1
        THEN [s1 EXCEPT !.failed[Cmd(p)] =
                            [at |-> Len(s.calls[Cmd(p)]), err |-> err]]
        ELSE s1

\* Bookkeeping: the ids of the listing the last answer of a listTransitions
\* call held.
Listed(s, p, r) ==
    LET c == Cmd(p)
        n == Len(s.answers[c])
        a == s.answers[c][n]
    IN  [s EXCEPT !.answers[c][n] =
                      [api |-> a.api, err |-> a.err, matched |-> a.matched,
                       ids |-> IF r.err = Null
                               THEN {r.data[i].id : i \in 1..Len(r.data)}
                               ELSE {}]]

\* The callbacks run passes to the commands it starts.
RunCallback(s, c, err, data) ==
    LET s1 == [s EXCEPT !.cbCount[c] = @ + 1, !.cbErr[c] = err]
    IN  IF c = "new" /\ err = Null /\ data # Undef
        THEN [s1 EXCEPT !.options.jiraNumber = data.key]
        ELSE s1

\* opt_callback of the top function of pipeline p.  The update and the
\* transition started by the menu call back into the menu's last step,
\* whose series then ends with the same err.
Finish(s, p, err, data) ==
    LET s1 == [s EXCEPT !.pc[p] = "done"]
    IN  IF p = "menu_update" \/ (p = "transition" /\ s.pc["menu"] = "nested")
        THEN RunCallback([s1 EXCEPT !.pc["menu"] = "done"], "transition",
                         err, data)
        ELSE RunCallback(s1, Cmd(p), err, data)

\* async.series: a step that calls back with an error ends the series, the
\* final callback receives the error; otherwise the next step runs.
AsyncSeriesIgnoringErrorMutant(s, p, err, next) ==
    IF err # Null /\ p \notin PayloadPipelines THEN Finish(s, p, err, Undef)
    ELSE next

\* A variant that issues the call that failed once more before giving up.
AsyncSeriesRetryMutant(s, p, err, next) ==
    LET c == Cmd(p)
        last == s.calls[c][Len(s.calls[c])]
        errs == {i \in 1..Len(s.answers[c]) : s.answers[c][i].err # Null}
    IN  IF err # Null
        THEN IF Cardinality(errs) = 1
             THEN Call(s, p, last.api, last.key, last.payload)
             ELSE Finish(s, p, err, Undef)
        ELSE next

AsyncSeries(s, p, err, next) ==
    IF err # Null THEN Finish(s, p, err, Undef) ELSE next

-----------------------------------------------------------------------------
(* getUpdatePayload_, new, update *)

TypeUniverse == {Entity("Bug", "1"), Entity("bug", "2")}
ComponentUniverse == {Entity("UI", "10"), Entity("ui", "20")}
VersionUniverse == {Entity("1.0", "100"), Entity("1.0.0", "200")}
FoundIssues == {[key |-> "LPS-1", id |-> "1001"]}

Listings(U) == SeqsUpTo(U, MaxListLen)

\* get<Kind>ByName_ and the callback getUpdatePayload_ gives it: the entity
\* is kept when the lookup reported no error; without an entity the err
\* becomes the hint of the kind.
LookupResultNoHintMutant(r, name, hint) ==
    [err |-> r.err,
     data |-> IF r.err = Null THEN FindFirstArrayValue(r.data, name)
              ELSE Undef]

LookupResult(r, name, hint) ==
    LET found == IF r.err = Null THEN FindFirstArrayValue(r.data, name)
                 ELSE Undef
    IN  [err |-> IF found = Undef THEN hint ELSE r.err, data |-> found]

\* The payload of getUpdatePayload_'s last operation.
Assemble(o, cfg, l) ==
    LET fields ==
            ("assignee" :>
                Obj("name" :> IF o.assignee = "" THEN Undef
                              ELSE Str(o.assignee)))
         @@ ("components" :> Arr(<<Obj("id" :> Str(l.component.id))>>))
         @@ ("description" :> Txt(o.message))
         @@ ("issuetype" :> Obj("id" :> Str(l.issueType.id)))
         @@ ("project" :> Obj("id" :> Str(l.project.id)))
         @@ ("summary" :> Str(o.title))
        withPriority ==
            IF l.priority # Undef
            THEN ("priority" :> Obj("id" :> Str(l.priority.id))) @@ fields
            ELSE fields
        withVersion ==
            IF l.version # Undef
            THEN ("versions" :> Arr(<<Obj("id" :> Str(l.version.id))>>))
                 @@ withPriority
            ELSE withPriority
        withReporter ==
            IF o.reporter # "" /\ (~o.new \/ o.reporter # cfg.user)
            THEN ("reporter" :> Obj("name" :> Str(o.reporter))) @@ withVersion
            ELSE withVersion
    IN  Obj("fields" :> Obj(withReporter))

\* The second operation of new and of update, run when getUpdatePayload_
\* called back without error.
SubmitPrunedAlwaysMutant(s, p) ==
    LET pruned == DeleteObjectEmptyValues(s.loc[p].payload)
    IN  IF p = "new"
        THEN Call([s EXCEPT !.loc[p].payload = pruned], p, "addNewIssue", "",
                  pruned)
        ELSE Call([s EXCEPT !.loc[p].payload = pruned], p, "updateIssue",
                  s.loc[p].number, pruned)

Submit(s, p) ==
    IF p = "new"
    THEN Call(s, p, "addNewIssue", "", s.loc[p].payload)
    ELSE LET pruned == DeleteObjectEmptyValues(s.loc[p].payload)
         IN  Call([s EXCEPT !.loc[p].payload = pruned], p, "updateIssue",
                  s.loc[p].number, pruned)

\* The last operation of getUpdatePayload_.  project is undefined when the
\* project lookup was skipped: reading the id of undefined throws a TypeError.
AssembleAndSubmit(s, p) ==
    IF Undef \in {s.loc[p].project, s.loc[p].component, s.loc[p].issueType}
    THEN [s EXCEPT !.crashed = TRUE]
    ELSE Submit([s EXCEPT !.loc[p].payload =
                              Assemble(s.options, s.jiraConfig, s.loc[p])], p)

\* The operations of getUpdatePayload_ from the one named on, as far as
\* the next remote call.
AfterVersionsStep(s, p) == AssembleAndSubmit(s, p)

VersionStepAlwaysMutant(s, p) ==
    Call(s, p, "getVersions", s.options.project, Undef)

VersionStep(s, p) ==
    IF s.options.version = "" THEN AfterVersionsStep(s, p)
    ELSE Call(s, p, "getVersions", s.options.project, Undef)

PriorityStepAlwaysMutant(s, p) == Call(s, p, "listPriorities", "", Undef)

PriorityStep(s, p) ==
    IF s.options.priority = "" THEN VersionStep(s, p)
    ELSE Call(s, p, "listPriorities", "", Undef)

\* A variant that falls back to a component when none is given.
ComponentStepFallbackMutant(s, p) ==
    Call([s EXCEPT !.options.component = IF @ = "" THEN "UI" ELSE @], p,
         "listComponents", s.options.project, Undef)

ComponentStep(s, p) ==
    Call(s, p, "listComponents", s.options.project, Undef)

ProjectStep(s, p) ==
    IF ~s.options.new /\ s.options.project = "" THEN ComponentStep(s, p)
    ELSE Call(s, p, "getProject", s.options.project, Undef)

\* getUpdatePayload_ up to its first remote call.
GetUpdatePayloadStart(s, p) ==
    LET message == IF s.options.message # <<>>
                   THEN ApplyReplacements(s.options.message) ELSE <<>>
    IN  Call([s EXCEPT !.options.message = message], p, "listIssueTypes",
             "", Undef)

UpdateStart(s, p, number) ==
    GetUpdatePayloadStart([s EXCEPT !.loc[p].number = number], p)

\* The callbacks of the lookups of getUpdatePayload_.
ListIssueTypesCb(p) ==
    /\ ~crashed
    /\ pc[p] = "listIssueTypes"
    /\ \E r \in Answers("listIssueTypes", Listings(TypeUniverse)) :
          LET res == LookupResult(r, options.type, NoIssueType)
              s1 == Answered(S, p, "listIssueTypes", r,
                             Lists(r, options.type), res.err)
              s2 == [s1 EXCEPT !.loc[p].issueType = res.data]
          IN  Become(AsyncSeries(s2, p, res.err, ProjectStep(s2, p)))

GetProjectCb(p) ==
    /\ ~crashed
    /\ pc[p] = "getProject"
    /\ \E r \in Answers("getProject", {Entity("LPS", "7")}) :
          LET s1 == Answered(S, p, "getProject", r, r.err = Null, r.err)
              s2 == [s1 EXCEPT !.loc[p].project = r.data]
          IN  Become(AsyncSeries(s2, p, r.err, ComponentStep(s2, p)))

ListComponentsCb(p) ==
    /\ ~crashed
    /\ pc[p] = "listComponents"
    /\ \E r \in Answers("listComponents", Listings(ComponentUniverse)) :
          LET res == LookupResult(r, options.component, NoComponent)
              s1 == Answered(S, p, "listComponents", r,
                             Lists(r, options.component), res.err)
              s2 == [s1 EXCEPT !.loc[p].component = res.data]
          IN  Become(AsyncSeries(s2, p, res.err, PriorityStep(s2, p)))

ListPrioritiesCb(p) ==
    /\ ~crashed
    /\ pc[p] = "listPriorities"
    /\ \E r \in Answers("listPriorities", Listings({Entity("Minor", "3"),
        Entity("minor", "4")})) :
          LET res == LookupResult(r, options.priority, NoPriority)
              s1 == Answered(S, p, "listPriorities", r,
                             Lists(r, options.priority), res.err)
              s2 == [s1 EXCEPT !.loc[p].priority = res.data]
          IN  Become(AsyncSeries(s2, p, res.err, VersionStep(s2, p)))

GetVersionsCb(p) ==
    /\ ~crashed
    /\ pc[p] = "getVersions"
    /\ \E r \in Answers("getVersions", Listings(VersionUniverse)) :
          LET res == LookupResult(r, options.version, NoVersion)
              s1 == Answered(S, p, "getVersions", r,
                             Lists(r, options.version), res.err)
              s2 == [s1 EXCEPT !.loc[p].version = res.data]
          IN  Become(AsyncSeries(s2, p, res.err, AfterVersionsStep(s2, p)))

AddNewIssueCb ==
    /\ ~crashed
    /\ pc["new"] = "addNewIssue"
    /\ \E r \in Answers("addNewIssue", {[key |-> "LPS-2", id |-> "1002"]}) :
          LET s1 == Answered(S, "new", "addNewIssue", r, r.err = Null, r.err)
          IN  Become(AsyncSeries(s1, "new", r.err,
                                 Finish(s1, "new", Null, r.data)))

UpdateIssueCb(p) ==
    /\ ~crashed
    /\ pc[p] = "updateIssue"
    /\ \E r \in Answers("updateIssue", FoundIssues) :
          LET s1 == Answered(S, p, "updateIssue", r, r.err = Null, r.err)
          IN  Become(AsyncSeries(s1, p, r.err, Finish(s1, p, Null, r.data)))

-----------------------------------------------------------------------------
(* comment *)

CommentFindIssueCb ==
    /\ ~crashed
    /\ pc["comment"] = "findIssue"
    /\ \E r \in Answers("findIssue", FoundIssues) :
          LET s1 == Answered(S, "comment", "findIssue", r, r.err = Null, r.err)
              comment == ExpandComment(ApplyReplacements(s1.options.comment))
              s2 == [s1 EXCEPT !.loc["comment"].issue = r.data,
                               !.options.comment = comment]
          IN  Become(AsyncSeries(s1, "comment", r.err,
                                 Call(s2, "comment", "addComment", r.data.id,
                                      Txt(comment))))

AddCommentCb ==
    /\ ~crashed
    /\ pc["comment"] = "addComment"
    /\ \E r \in Answers("addComment", {Undef}) :
          LET s1 == Answered(S, "comment", "addComment", r, r.err = Null, r.err)
          IN  Become(AsyncSeries(s1, "comment", r.err,
                                 Finish(s1, "comment", Null, Undef)))

-----------------------------------------------------------------------------
(* transition *)

FieldNames == ("resolution" :> "Resolution") @@ ("assignee" :> "Assignee")

\* What listTransitions answers with: transitions of the names known, each
\* with a list of fields of distinct ids.
TransitionListings ==
    LET names == {Entity("Start Progress", "4"), Entity("start progress", "5")}
        allowedValues ==
            ("resolution" :> <<Entity("Fixed", "1"), Entity("Done", "2")>>)
                @@ ("assignee" :> <<Entity("ann", "ann"), Entity("bob", "bob")>>)
        fields ==
            {[id |-> i, name |-> FieldNames[i], required |-> r,
              schemaType |-> ty, allowedValues |-> allowedValues[i]] :
                i \in DOMAIN FieldNames, r \in BOOLEAN,
                ty \in {"array", "string"}}
        fieldLists ==
            {fl \in SeqsUpTo(fields, Cardinality(DOMAIN FieldNames)) :
                \A i, j \in 1..Len(fl) : i # j => fl[i].id # fl[j].id}
    IN  {[i \in 1..Len(ns) |->
             [id |-> ns[i].id, name |-> ns[i].name, fieldsArray |-> fl]] :
            ns \in Listings(names), fl \in fieldLists}

\* The callback transition gives getTransitionByName_: without a transition
\* the err becomes the message that names the requested transition.
TransitionLookupResult(r, name) ==
    LET found == IF r.err = Null THEN FindFirstArrayValue(r.data, name)
                 ELSE Undef
    IN  [err |-> IF r.err = Null /\ found # Undef THEN Null
                 ELSE InvalidTransition(name),
         data |-> found]

\* transitionConfig && transitionConfig[field.name]
ConfigValue(transitionConfig, field) ==
    IF transitionConfig = Undef THEN Undef
    ELSE IF field.name \in DOMAIN transitionConfig.o
         THEN transitionConfig.o[field.name]
         ELSE Undef

ConfigWinsNeverMutant(configValue) == FALSE

ConfigWins(configValue) == configValue # Undef /\ configValue # Bool(TRUE)

NeedsPromptAlwaysMutant(field, configValue) == ~ConfigWins(configValue)

NeedsPrompt(field, configValue) ==
    ~ConfigWins(configValue) /\ (field.required \/ configValue = Bool(TRUE))

\* The forEach of expandTransitionFields_: the configured values are written
\* to payload.fields.
RECURSIVE ExpandConfigured(_, _, _)
ExpandConfigured(transitionConfig, fieldsArray, payloadFields) ==
    IF fieldsArray = <<>> THEN payloadFields
    ELSE LET field == Head(fieldsArray)
             configValue == ConfigValue(transitionConfig, field)
         IN  ExpandConfigured(
                 transitionConfig, Tail(fieldsArray),
                 IF ConfigWins(configValue)
                 THEN Put(payloadFields, field.id, configValue)
                 ELSE payloadFields)

\* The operations expandTransitionFields_ collects: one prompt per field
\* that is not configured and is required or marked to prompt.
PromptOperationsReversedMutant(transitionConfig, fieldsArray) ==
    LET ops == SelectSeq(fieldsArray,
                         LAMBDA field :
                             NeedsPrompt(field,
                                         ConfigValue(transitionConfig, field)))
    IN  [i \in 1..Len(ops) |-> ops[Len(ops) + 1 - i]]

PromptOperations(transitionConfig, fieldsArray) ==
    SelectSeq(fieldsArray,
              LAMBDA field :
                  NeedsPrompt(field, ConfigValue(transitionConfig, field)))

\* The value a prompt's answer writes to payload.fields[field.id].
WrapNeverMutant(field, fieldValue) == fieldValue

Wrap(field, fieldValue) ==
    IF field.schemaType = "array" THEN Arr(<<fieldValue>>) ELSE fieldValue

\* The third operation of transition up to expandTransitionFields_.
AssigneeMergeNeverMutant(o, payload) == payload

AssigneeMerge(o, payload) ==
    IF o.assignee # ""
    THEN Put(payload, "fields",
             Put(payload.o["fields"], "assignee",
                 Obj("name" :> Str(o.assignee))))
    ELSE payload

CommentMergeAlwaysMutant(message, payload) ==
    Put(payload, "update",
        Obj("comment" :> Arr(<<Obj("add" :> Obj("body" :> Txt(message)))>>)))

CommentMerge(message, payload) ==
    IF message # <<>>
    THEN Put(payload, "update",
             Obj("comment" :>
                 Arr(<<Obj("add" :> Obj("body" :> Txt(message)))>>)))
    ELSE payload

TransitionIdWrongMutant(transition) == Str("0")

TransitionId(transition) == Str(transition.id)

InitialTransitionPayload(transition) ==
    Obj(("update" :> Obj(<<>>)) @@ ("fields" :> Obj(<<>>))
        @@ ("transition" :> Obj("id" :> TransitionId(transition))))

\* The last operation of transition: the payload is compiled and submitted.
TransitionSubmit(s, p) ==
    LET payload == CompileObjectValuesTemplate(s.loc[p].payload, s.options,
                                               s.jiraConfig)
    IN  Call([s EXCEPT !.loc[p].payload = payload], p, "transitionIssue",
             s.loc[p].number, payload)

\* async.series over the prompt operations still to run.
PromptSeries(s, p) ==
    IF s.loc[p].ops = <<>> THEN TransitionSubmit(s, p)
    ELSE [s EXCEPT !.pc[p] = "prompt",
                   !.prompts[Cmd(p)] =
                       Append(@, [field |-> Head(s.loc[p].ops).id,
                                  chosen |-> Undef])]

\* The third operation of transition.
ExpandAndPrompt(s, p) ==
    LET l == s.loc[p]
        message == IF s.options.message # <<>>
                   THEN ExpandComment(ApplyReplacements(s.options.message))
                   ELSE <<>>
        o == [s.options EXCEPT !.message = message]
        merged == AssigneeMerge(o, CommentMerge(message,
                      InitialTransitionPayload(l.transition)))
        expanded == Put(merged, "fields",
                        ExpandConfigured(l.transitionConfig,
                                         l.transition.fieldsArray,
                                         merged.o["fields"]))
        ops == PromptOperations(l.transitionConfig, l.transition.fieldsArray)
    IN  PromptSeries([s EXCEPT !.options = o, !.loc[p].payload = expanded,
                               !.loc[p].ops = ops], p)

\* transition up to its first remote call.
TransitionStart(s, number, name) ==
    LET transitionConfig ==
            IF name \in DOMAIN s.jiraConfig.transition
            THEN s.jiraConfig.transition[name] ELSE Undef
    IN  Call([s EXCEPT !.loc["transition"].number = number,
                       !.loc["transition"].name = name,
                       !.loc["transition"].transitionConfig = transitionConfig],
             "transition", "listTransitions", number, Undef)

TransitionListCb ==
    /\ ~crashed
    /\ pc["transition"] = "listTransitions"
    /\ \E r \in Answers("listTransitions", TransitionListings) :
          LET name == loc["transition"].name
              res == TransitionLookupResult(r, name)
              s1 == Listed(Answered(S, "transition", "listTransitions", r,
                                    Lists(r, name), res.err),
                           "transition", r)
              s2 == [s1 EXCEPT !.loc["transition"].transition = res.data]
          IN  Become(AsyncSeries(s1, "transition", res.err,
                                 Call(s2, "transition", "findIssue",
                                      loc["transition"].number, Undef)))

TransitionFindIssueCb ==
    /\ ~crashed
    /\ pc["transition"] = "findIssue"
    /\ \E r \in Answers("findIssue", FoundIssues) :
          LET s1 == Answered(S, "transition", "findIssue", r, r.err = Null,
                             r.err)
              s2 == [s1 EXCEPT !.loc["transition"].issue = r.data]
          IN  Become(AsyncSeries(s1, "transition", r.err,
                                 ExpandAndPrompt(s2, "transition")))

\* The user answers the pending field prompt with one of the allowed values.
TransitionPromptCb ==
    /\ ~crashed
    /\ pc["transition"] = "prompt"
    /\ LET l == loc["transition"]
           field == Head(l.ops)
       IN  \E i \in 1..Len(field.allowedValues) :
              LET fieldName == field.allowedValues[i].name
                  found == FindFirstArrayValue(field.allowedValues, fieldName)
                  fieldValue == Wrap(field, IF found = Undef THEN Undef
                                            ELSE EntityValue(found))
                  payload == Put(l.payload, "fields",
                                 Put(l.payload.o["fields"], field.id,
                                     fieldValue))
                  s1 == [S EXCEPT
                            !.loc["transition"].payload = payload,
                            !.loc["transition"].ops = Tail(l.ops),
                            !.prompts["transition"][Len(prompts["transition"])]
                                .chosen = field.allowedValues[i]]
              IN  Become(PromptSeries(s1, "transition"))

TransitionIssueCb ==
    /\ ~crashed
    /\ pc["transition"] = "transitionIssue"
    /\ \E r \in Answers("transitionIssue", FoundIssues) :
          LET s1 == Answered(S, "transition", "transitionIssue", r,
                             r.err = Null, r.err)
          IN  Become(AsyncSeries(s1, "transition", r.err,
                                 Finish(s1, "transition", Null, r.data)))

-----------------------------------------------------------------------------
(* transitionWithQuestion_: the interactive menu *)

MenuChoices(o, transitions) ==
    <<CANCEL_MESSAGE>>
        \o (IF o.assignee # ""
            THEN <<ASSIGN_TO_SOMEONE_MESSAGE \o " " \o o.assignee>> ELSE <<>>)
        \o <<ASSIGN_TO_ME_MESSAGE, OPEN_ISSUE_IN_BROWSER_MESSAGE>>
        \o [i \in 1..Len(transitions) |-> transitions[i].name]

\* The switch on the answer of the menu: the action it selects.
MenuActionBrowserAssignsMutant(answer, transitions) ==
    CASE answer = ASSIGN_TO_ME_MESSAGE -> Str(ACTION_ISSUE_ASSIGN)
      [] answer = ASSIGN_TO_SOMEONE_MESSAGE -> Str(ACTION_ISSUE_ASSIGN)
      [] answer = OPEN_ISSUE_IN_BROWSER_MESSAGE -> Str(ACTION_ISSUE_ASSIGN)
      [] answer = CANCEL_MESSAGE -> Undef
      [] OTHER -> FindFirstArrayValue(transitions, answer)

MenuAction(answer, transitions) ==
    CASE answer = ASSIGN_TO_ME_MESSAGE -> Str(ACTION_ISSUE_ASSIGN)
      [] answer = ASSIGN_TO_SOMEONE_MESSAGE -> Str(ACTION_ISSUE_ASSIGN)
      [] answer = OPEN_ISSUE_IN_BROWSER_MESSAGE ->
            Str(ACTION_ISSUE_OPEN_IN_BROWSER)
      [] answer = CANCEL_MESSAGE -> Undef
      [] OTHER -> FindFirstArrayValue(transitions, answer)

Browser(s, number) == [s EXCEPT !.opened = @ \cup {number}]

MenuStart(s, number) ==
    Call([s EXCEPT !.loc["menu"].number = number], "menu", "listTransitions",
         number, Undef)

\* The last operation of transitionWithQuestion_.  The listing and the
\* choices are not read again once the action is selected: they are dropped.
MenuAct(s0, action) ==
    LET s == [s0 EXCEPT !.loc["menu"].transitions = <<>>,
                        !.loc["menu"].choices = <<>>]
        nested == [s EXCEPT !.pc["menu"] = "nested"]
    IN  CASE action = Undef -> Finish(s, "menu", Null, Undef)
          [] action = Str(ACTION_ISSUE_ASSIGN) ->
                UpdateStart(nested, "menu_update", s.options.jiraNumber)
          [] action = Str(ACTION_ISSUE_OPEN_IN_BROWSER) ->
                Finish(Browser(s, s.options.jiraNumber), "menu", Null, Undef)
          [] OTHER ->
                TransitionStart(nested, s.loc["menu"].number, action.name)

MenuListCb ==
    /\ ~crashed
    /\ pc["menu"] = "listTransitions"
    /\ \E r \in Answers("listTransitions", TransitionListings) :
          LET s1 == Listed(Answered(S, "menu", "listTransitions", r,
                                    r.err = Null, r.err), "menu", r)
              s2 == [s1 EXCEPT !.loc["menu"].transitions = r.data]
          IN  Become(AsyncSeries(s1, "menu", r.err,
                                 Call(s2, "menu", "findIssue",
                                      s2.options.jiraNumber, Undef)))

MenuFindIssueCb ==
    /\ ~crashed
    /\ pc["menu"] = "findIssue"
    /\ \E r \in Answers("findIssue", FoundIssues) :
          LET s1 == Answered(S, "menu", "findIssue", r, r.err = Null, r.err)
              choices == MenuChoices(s1.options, s1.loc["menu"].transitions)
              s2 == [s1 EXCEPT !.loc["menu"].issue = r.data,
                               !.loc["menu"].choices = choices,
                               !.pc["menu"] = "prompt",
                               !.prompts["transition"] =
                                   Append(@, [field |-> "transition",
                                              chosen |-> Undef])]
          IN  Become(AsyncSeries(s1, "menu", r.err, s2))

\* The user answers the menu with one of its choices.
MenuAnswerCb ==
    /\ ~crashed
    /\ pc["menu"] = "prompt"
    /\ \E i \in 1..Len(loc["menu"].choices) :
          LET answer == loc["menu"].choices[i]
              action == MenuAction(answer, loc["menu"].transitions)
              s1 == [S EXCEPT
                        !.options.assignee =
                            IF answer = ASSIGN_TO_ME_MESSAGE
                            THEN jiraConfig.user ELSE @,
                        !.prompts["transition"][Len(prompts["transition"])]
                            .chosen = Str(answer)]
          IN  Become(MenuAct(s1, action))

-----------------------------------------------------------------------------
(* assign *)

NotAssigning == [pc |-> "idle", puts |-> <<>>, status |-> <<>>, logged |-> <<>>]

\* A variant of assign that fetches the issue before the PUT.
AssignResolvingMutant(s, number, name) ==
    Call([s EXCEPT !.assigning.pc = "request",
                   !.assigning.puts =
                       Append(@, [number |-> number, name |-> name])],
         "comment", "findIssue", number, Undef)

\* Jira.prototype.assign: one PUT of {name: name} to /issue/<number>/assignee.
Assign(s, number, name) ==
    [s EXCEPT !.assigning.pc = "request",
              !.assigning.puts = Append(@, [number |-> number, name |-> name])]

\* The switch on response.statusCode in the callback run gives to assign.
AssignMessage404GenericMutant(statusCode, assignee) ==
    CASE statusCode = 204 -> <<"Issue assigned to " \o assignee, "jiraIssueLink">>
      [] statusCode = 400 ->
            <<"There is a problem with the received user representation.">>
      [] statusCode = 401 ->
            <<"Calling user has no permission to assign the issue.">>
      [] OTHER -> <<"There was an error trying to assign the issue.">>

AssignMessage(statusCode, assignee) ==
    CASE statusCode = 204 -> <<"Issue assigned to " \o assignee, "jiraIssueLink">>
      [] statusCode = 400 ->
            <<"There is a problem with the received user representation.">>
      [] statusCode = 401 ->
            <<"Calling user has no permission to assign the issue.">>
      [] statusCode = 404 -> <<"Either the issue or the user does not exist.">>
      [] OTHER -> <<"There was an error trying to assign the issue.">>

\* The request answers: a transport error, or a response with a status.
AssignRequestCb ==
    /\ ~crashed
    /\ assigning.pc = "request"
    /\ \/ Become([S EXCEPT
                     !.assigning.pc = "done",
                     !.assigning.status =
                         Append(@, [err |-> RemoteError("assignee"),
                                    statusCode |-> 0]),
                     !.assigning.logged =
                         Append(@, "Can't assign. "
                                       \o RemoteError("assignee"))])
       \/ \E statusCode \in {204, 400, 401, 404, 500} :
             Become([S EXCEPT
                        !.assigning.pc = "done",
                        !.assigning.status =
                            Append(@, [err |-> Null,
                                       statusCode |-> statusCode]),
                        !.assigning.logged =
                            @ \o AssignMessage(statusCode, options.assignee)])

-----------------------------------------------------------------------------
(* run: the commands the invocation asks for are started one after another, *)
(* each up to its first remote call.                                       *)

Warn(s, message) == [s EXCEPT !.log = Append(@, message)]

\* A variant of the final callback that starts new, transition and update
\* without looking at the project or at the issue number.
SeriesCallbackUngatedMutant(s0) ==
    LET RunBrowser(s) ==
            IF s.options.browser THEN Browser(s, s.options.jiraNumber) ELSE s
        RunComment(s) ==
            IF s.options.comment # <<>>
            THEN Call(s, "comment", "findIssue", s.options.jiraNumber, Undef)
            ELSE s
        RunNew(s) ==
            IF s.options.new THEN GetUpdatePayloadStart(s, "new") ELSE s
        RunAssign(s) ==
            IF s.options.assign
            THEN Assign(s, s.options.jiraNumber, s.options.assignee)
            ELSE s
        RunTransition(s) ==
            IF s.options.transition # ""
            THEN IF s.options.transition = "true"
                 THEN MenuStart(s, s.options.jiraNumber)
                 ELSE TransitionStart(s, s.options.jiraNumber,
                                      s.options.transition)
            ELSE s
        RunUpdate(s) ==
            IF s.options.update
            THEN UpdateStart(s, "update", s.options.jiraNumber)
            ELSE s
        started == [s0 EXCEPT !.pc["run"] = "done"]
    IN  IF started.jiraConfig.host = "" THEN started
        ELSE RunUpdate(RunTransition(RunAssign(RunNew(RunComment(
                 RunBrowser(started))))))

\* The final callback of the setup series: it takes no err; without a host
\* nothing is started, else every command asked for is started, each up to
\* its first remote call: browser, comment, new, assign, transition, update.
SeriesCallback(s0) ==
    LET RunBrowser(s) ==
            IF s.options.browser THEN Browser(s, s.options.jiraNumber) ELSE s
        RunComment(s) ==
            IF s.options.comment # <<>>
            THEN Call(s, "comment", "findIssue", s.options.jiraNumber, Undef)
            ELSE s
        RunNew(s) ==
            IF s.options.new
            THEN IF s.options.project # ""
                 THEN GetUpdatePayloadStart(s, "new")
                 ELSE Warn(s, "Project name not found, try with --project.")
            ELSE s
        RunAssign(s) ==
            IF s.options.assign
            THEN Assign(s, s.options.jiraNumber, s.options.assignee)
            ELSE s
        RunTransition(s) ==
            IF s.options.transition # ""
            THEN IF s.options.jiraNumber # ""
                 THEN IF s.options.transition = "true"
                      THEN MenuStart(s, s.options.jiraNumber)
                      ELSE TransitionStart(s, s.options.jiraNumber,
                                           s.options.transition)
                 ELSE Warn(s, "Skipping JIRA transition, issue number not "
                                  \o "specified.")
            ELSE s
        RunUpdate(s) ==
            IF s.options.update
            THEN IF s.options.project # ""
                 THEN UpdateStart(s, "update", s.options.jiraNumber)
                 ELSE Warn(s, "Project name not found, try --project JIR.")
            ELSE s
        started == [s0 EXCEPT !.pc["run"] = "done"]
    IN  IF started.jiraConfig.host = "" THEN started
        ELSE RunUpdate(RunTransition(RunAssign(RunNew(RunComment(
                 RunBrowser(started))))))

Run ==
    /\ pc["run"] = "series"
    /\ Become(SeriesCallback(S))

-----------------------------------------------------------------------------
(* The setup of run: aliases, the stored credentials, the issue number and *)
(* the project read from git, the defaults of the project, the search for  *)
(* the assignee.  The callback that ends the setup starts the commands.    *)

ConfigAlias == "me" :> "joe"

\* expandAliases_: config.alias[name] || name.
ExpandAliases(o) ==
    [o EXCEPT !.assignee =
                  IF @ \in DOMAIN ConfigAlias THEN ConfigAlias[@] ELSE @,
              !.reporter =
                  IF o.new /\ @ \in DOMAIN ConfigAlias THEN ConfigAlias[@]
                  ELSE @]

GetIssueNumberFromText(text) ==
    CASE text = "ABC-7-fix" -> "ABC-7"
      [] text = "abc-7 fix typo" -> "ABC-7"
      [] OTHER -> ""

\* getProjectName: the number up to its first dash; nothing for no number.
GetProjectName(number) ==
    CASE number = "LPS-1" -> "LPS"
      [] number = "LPS-2" -> "LPS"
      [] number = "ABC-7" -> "ABC"
      [] OTHER -> ""

\* Jira.setIssueNumber(branch, repo, options).
SetIssueNumber(branch, o, g) ==
    IF ~o.repo THEN o
    ELSE LET fromBranch ==
                 IF branch # "" THEN GetIssueNumberFromText(branch) ELSE ""
             fromCurrent ==
                 IF fromBranch = ""
                 THEN GetIssueNumberFromText(g.currentBranch) ELSE fromBranch
             issue ==
                 IF fromCurrent = ""
                 THEN GetIssueNumberFromText(g.commitMessage) ELSE fromCurrent
             o1 == IF issue # ""
                   THEN [o EXCEPT !.project = GetProjectName(o.jiraNumber),
                                  !.jiraNumber = issue]
                   ELSE o
         IN  IF o1.project = ""
             THEN [o1 EXCEPT !.project =
                      GetProjectName(GetIssueNumberFromText(g.commitMessages))]
             ELSE o1

\* jiraConfig.default_issue_*[options.project]
Default(defaults, project) ==
    IF project \in DOMAIN defaults THEN defaults[project] ELSE ""

\* callback(err) of an operation of the setup: the series ends or goes on,
\* and its final callback runs in either case.
SetupDone(s, err) ==
    SeriesCallback(
        IF err # Null /\ s.failed["run"].at = -1
        THEN [s EXCEPT !.failed["run"] =
                           [at |-> Len(s.calls["run"]), err |-> err]]
        ELSE s)

\* A variant of the second operation that applies no default.
ApiSetupWithoutDefaultsMutant(s, g) ==
    LET s1 == [s EXCEPT !.options = SetIssueNumber("", s.options, g)]
    IN  IF s1.options.originalAssignee = "" \/ s1.options.jiraNumber = ""
        THEN SetupDone(s1, Null)
        ELSE Call(s1, "run", "searchUsers", s1.options.assignee, Undef)

\* A variant of the second operation that searches for the assignee given
\* also when no issue number is known.
ApiSetupSearchWithoutNumberMutant(s, g) ==
    LET o1 == SetIssueNumber("", s.options, g)
        cfg == s.jiraConfig
        o2 == [o1 EXCEPT
                  !.component =
                      IF @ # "" THEN @
                      ELSE Default(cfg.default_issue_component, o1.project),
                  !.type =
                      IF @ # "" THEN @
                      ELSE Default(cfg.default_issue_type, o1.project),
                  !.version =
                      IF @ # "" THEN @
                      ELSE Default(cfg.default_issue_version, o1.project)]
        s1 == [s EXCEPT !.options = o2]
    IN  IF o2.originalAssignee = ""
        THEN SetupDone(s1, Null)
        ELSE Call(s1, "run", "searchUsers", o2.assignee, Undef)

\* The second operation of the setup up to the search for the assignee.
ApiSetup(s, g) ==
    LET o1 == SetIssueNumber("", s.options, g)
        cfg == s.jiraConfig
        o2 == [o1 EXCEPT
                  !.component =
                      IF @ # "" THEN @
                      ELSE Default(cfg.default_issue_component, o1.project),
                  !.type =
                      IF @ # "" THEN @
                      ELSE Default(cfg.default_issue_type, o1.project),
                  !.version =
                      IF @ # "" THEN @
                      ELSE Default(cfg.default_issue_version, o1.project)]
        s1 == [s EXCEPT !.options = o2]
    IN  IF o2.originalAssignee = "" \/ o2.jiraNumber = ""
        THEN SetupDone(s1, Null)
        ELSE Call(s1, "run", "searchUsers", o2.assignee, Undef)

\* run up to the first wait of its setup.
RunStart ==
    /\ pc["run"] = "start"
    /\ LET o1 == ExpandAliases(options)
           o2 == [o1 EXCEPT !.jiraNumber = o1.number,
                            !.originalAssignee = o1.assignee,
                            !.assignee = IF o1.assignee # "" THEN o1.assignee
                                         ELSE jiraConfig.user]
           s1 == [S EXCEPT !.options = o2]
       IN  IF "" \in {jiraConfig.host, jiraConfig.user, jiraConfig.password}
           THEN Become(Warn([s1 EXCEPT !.pc["run"] = "login"],
                            "Jira plugin not configured."))
           ELSE Become(ApiSetup(s1, git))

\* login_: the credentials are asked for; user and password are stored in
\* jiraConfig, all three answers are written to the configuration file.
LoginCb ==
    /\ pc["run"] = "login"
    /\ \E user \in {"", "joe"} :
          Become(ApiSetup(
              Warn([S EXCEPT !.jiraConfig.user = user,
                             !.jiraConfig.password = "encrypted"],
                   "Writing GH config data."), git))

\* A variant that takes the first of several users without asking.
UsersFoundFirstMutant(s, users) ==
    IF users = <<>>
    THEN SetupDone(s, "Not found any user for " \o s.options.assignee)
    ELSE SetupDone([s EXCEPT !.options.assignee = users[1].name,
                             !.loc["run"].choices =
                                 [i \in 1..Len(users) |-> users[i].name]],
                   Null)

\* The users the search of run's setup ended with; their names are kept in
\* the closure of run (choices).
UsersFound(s, users) ==
    LET s1 == [s EXCEPT !.loc["run"].choices =
                            [i \in 1..Len(users) |-> users[i].name]]
    IN  IF users = <<>>
        THEN SetupDone(s, "Not found any user for " \o s.options.assignee)
        ELSE IF Len(users) > 1
             THEN [s1 EXCEPT !.pc["run"] = "selectUser",
                             !.prompts["run"] =
                                 Append(@, [field |-> "username",
                                            chosen |-> Undef])]
             ELSE SetupDone([s1 EXCEPT !.options.assignee = users[1].name],
                            Null)

UserUniverse == {[name |-> "joe"], [name |-> "joan"]}

\* searchUserByGithubUsername_: the search by the name given, the lookup of
\* the GitHub user when it found nobody, the search by that user's name.
SearchUsersCb ==
    /\ ~crashed
    /\ pc["run"] = "searchUsers"
    /\ \E r \in Answers("searchUsers", Listings(UserUniverse)) :
          LET s1 == Answered(S, "run", "searchUsers", r,
                             r.err = Null /\ r.data # <<>>, r.err)
          IN  IF r.err # Null THEN Become(SetupDone(s1, r.err))
              ELSE IF r.data # <<>> THEN Become(UsersFound(s1, r.data))
              ELSE Become(Call(s1, "run", "githubUser",
                               s1.options.assignee, Undef))

GithubUserCb ==
    /\ ~crashed
    /\ pc["run"] = "githubUser"
    /\ \E r \in Answers("githubUser", {Undef, [name |-> "joan"]}) :
          LET s1 == Answered(S, "run", "githubUser", r,
                             r.err = Null /\ r.data # Undef, r.err)
          IN  IF r.err # Null THEN Become(SetupDone(s1, r.err))
              ELSE IF r.data = Undef THEN Become(UsersFound(s1, <<>>))
              ELSE Become(Call(s1, "run", "searchUsersByName", r.data.name,
                               Undef))

SearchUsersByNameCb ==
    /\ ~crashed
    /\ pc["run"] = "searchUsersByName"
    /\ \E r \in Answers("searchUsersByName", Listings(UserUniverse)) :
          LET s1 == Answered(S, "run", "searchUsersByName", r,
                             r.err = Null /\ r.data # <<>>, r.err)
          IN  IF r.err # Null THEN Become(SetupDone(s1, r.err))
              ELSE Become(UsersFound(s1, r.data))

\* selectUserWithQuestion_: the user picks one of the names found.
SelectUserCb ==
    /\ ~crashed
    /\ pc["run"] = "selectUser"
    /\ \E i \in 1..Len(loc["run"].choices) :
          LET username == loc["run"].choices[i]
              s1 == [S EXCEPT
                        !.options.assignee = username,
                        !.prompts["run"][Len(prompts["run"])].chosen =
                            Str(username)]
          IN  Become(SetupDone(s1, Null))

-----------------------------------------------------------------------------
(* The invocations *)

BaseOptions ==
    [new |-> FALSE, update |-> FALSE, comment |-> <<>>, transition |-> "",
     assign |-> FALSE, browser |-> FALSE, project |-> "LPS", type |-> "Bug",
     component |-> "UI", priority |-> "", version |-> "", message |-> <<>>,
     title |-> "t", assignee |-> "joe", reporter |-> "",
     jiraNumber |-> "LPS-1", number |-> "LPS-1", repo |-> FALSE,
     originalAssignee |-> ""]

Messages == {<<>>, <<"k">>}

\* jiraConfig.transition: per transition name, per field name, a value or
\* true (prompt for the field).
TransitionConfigs ==
    {<<>>,
     "Start Progress" :> Obj("Resolution" :> Obj("name" :> Str("Fixed"))),
     "Start Progress" :> Obj("Resolution" :> Bool(TRUE)),
     "Start Progress" :>
         Obj("Assignee" :> Obj("name" :> Str("{{jira.user}}"))),
     "Start Progress" :> Obj(("Assignee" :> Obj("name" :> Str("bob")))
                             @@ ("Resolution" :> Bool(TRUE)))}

Invocations ==
    {[BaseOptions EXCEPT !.new = n, !.update = ~n, !.project = pr,
                         !.component = c, !.priority = pi, !.version = v,
                         !.message = m] :
        n \in BOOLEAN, pr \in {"", "LPS"}, c \in {"", "UI"},
        pi \in {"", "Minor"}, v \in {"", "1.0"}, m \in Messages}
        \cup
    {[BaseOptions EXCEPT !.transition = "Start Progress", !.assignee = a,
                         !.message = m, !.jiraNumber = nr] :
        a \in {"", "joe", "ann"}, m \in Messages, nr \in {"", "LPS-1"}}
        \cup
    {[BaseOptions EXCEPT !.transition = "true", !.assignee = a,
                         !.message = m, !.project = pr] :
        a \in {"", "joe", "ann"}, m \in Messages, pr \in {"", "LPS"}}
        \cup
    {[BaseOptions EXCEPT !.comment = <<"k">>, !.browser = b] : b \in BOOLEAN}
        \cup
    \* assign and browser, alone or together.
    {[BaseOptions EXCEPT !.assign = as, !.browser = b, !.assignee = a] :
        as \in BOOLEAN, b \in BOOLEAN, a \in {"joe", "ann"}}
        \cup
    \* new and update with the people of the issue varied.
    {[BaseOptions EXCEPT !.new = n, !.update = ~n, !.assignee = a,
                         !.reporter = r, !.title = ti] :
        n \in BOOLEAN, a \in {"", "joe"}, r \in {"", "joe", "ann"},
        ti \in {"", "t"}}

\* run sets options.assignee to options.assignee || jiraConfig.user: the
\* assignee is empty only when the configured user is.
ConfiguredUser(o) == IF o.assignee = "" THEN "" ELSE "joe"

\* config.plugins.jira: the credentials, the per-transition field values and
\* the defaults per project.
NoDefaults == <<>>

Config(user, tc) ==
    [host |-> "jira.example.com", user |-> user, password |-> "secret",
     transition |-> tc, default_issue_component |-> NoDefaults,
     default_issue_type |-> NoDefaults, default_issue_version |-> NoDefaults]

NoGit == [currentBranch |-> "", commitMessage |-> "", commitMessages |-> ""]

\* The state the setup of run leaves: the number given is the issue number,
\* an assignee other than the configured user is kept as originalAssignee.
Init ==
    /\ options \in
           {[o EXCEPT !.number = o.jiraNumber,
                      !.originalAssignee =
                          IF o.assignee = ConfiguredUser(o) THEN ""
                          ELSE o.assignee] : o \in Invocations}
    /\ git = NoGit
    /\ given = options
    /\ log = <<>>
    /\ jiraConfig \in
           {Config(ConfiguredUser(options), tc) :
               tc \in IF options.transition = "" THEN {<<>>}
                      ELSE TransitionConfigs}
    /\ pc = [p \in Pipelines \cup {"run"} |->
                IF p = "run" THEN "series" ELSE "idle"]
    /\ loc = [p \in Pipelines \cup {"run"} |-> EmptyLoc]
    /\ calls = [c \in Commands \cup {"run"} |-> <<>>]
    /\ prompts = [c \in Commands \cup {"run"} |-> <<>>]
    /\ cbCount = [c \in Commands |-> 0]
    /\ cbErr = [c \in Commands |-> Null]
    /\ answers = [c \in Commands \cup {"run"} |-> <<>>]
    /\ failed = [c \in Commands \cup {"run"} |-> NotFailed]
    /\ opened = {}
    /\ crashed = FALSE
    /\ assigning = NotAssigning
    /\ input = Undef
    /\ output = <<>>

Next ==
    \/ Run
    \/ \E p \in PayloadPipelines :
          \/ ListIssueTypesCb(p)
          \/ GetProjectCb(p)
          \/ ListComponentsCb(p)
          \/ ListPrioritiesCb(p)
          \/ GetVersionsCb(p)
    \/ AddNewIssueCb
    \/ \E p \in {"update", "menu_update"} : UpdateIssueCb(p)
    \/ CommentFindIssueCb
    \/ AddCommentCb
    \/ TransitionListCb
    \/ TransitionFindIssueCb
    \/ TransitionPromptCb
    \/ TransitionIssueCb
    \/ MenuListCb
    \/ MenuFindIssueCb
    \/ MenuAnswerCb
    \/ AssignRequestCb

Spec == Init /\ [][Next]_vars

-----------------------------------------------------------------------------
(* run from the start: the options as given on the command line, the      *)
(* stored configuration, the git repository; several commands at once.    *)

\* config.plugins.jira as stored: with or without the host and the user,
\* with or without the defaults for the project LPS.
RunConfig(host, user, tc, defaults) ==
    [host |-> host, user |-> user,
     password |-> IF user = "" THEN "" ELSE "secret", transition |-> tc,
     default_issue_component |->
         IF defaults THEN "LPS" :> "UI" ELSE NoDefaults,
     default_issue_type |-> IF defaults THEN "LPS" :> "Bug" ELSE NoDefaults,
     default_issue_version |-> IF defaults THEN "LPS" :> "1.0" ELSE NoDefaults]

\* The options before run has touched them.
GivenOptions ==
    [BaseOptions EXCEPT !.assignee = "", !.jiraNumber = ""]

Runs ==
    \* new or update alone, with and without the project, the component and
    \* the type, with and without defaults configured, in and out of a
    \* repository.
    {[o |-> [GivenOptions EXCEPT !.new = n, !.update = ~n, !.project = pr,
                                 !.component = c, !.type = ty,
                                 !.priority = pi, !.repo = (g # NoGit)],
      g |-> g,
      c |-> RunConfig("jira.example.com", "joe", <<>>, d)] :
        n \in BOOLEAN, pr \in {"", "LPS"}, c \in {"", "UI"},
        ty \in {"", "Bug"}, pi \in {"", "Minor"}, d \in BOOLEAN,
        g \in {NoGit, [currentBranch |-> "master", commitMessage |-> "",
                       commitMessages |-> "abc-7 fix typo"]}}
        \cup
    {[o |-> [GivenOptions EXCEPT !.new = (k = "new"),
                                 !.update = (k = "update"),
                                 !.transition = tr, !.message = m,
                                 !.comment = IF k = "none" \/ tr = ""
                                             THEN <<"k">> ELSE <<>>,
                                 !.project = IF k = "none" THEN "" ELSE "LPS"],
      g |-> NoGit,
      c |-> RunConfig("jira.example.com", "joe",
                      "Start Progress" :>
                          Obj(("Assignee" :> Obj("name" :> Str("bob")))
                              @@ ("Resolution" :> Bool(TRUE))),
                      FALSE)] :
        k \in {"new", "update", "none"},
        tr \in {"", "Start Progress", "true"}, m \in Messages}
        \cup
    \* An assignee is given: the setup searches for the user.
    {[o |-> [GivenOptions EXCEPT !.assignee = a, !.number = nr,
                                 !.assign = (k = "assign"),
                                 !.comment = IF k = "comment" THEN <<"k">>
                                             ELSE <<>>,
                                 !.transition = IF k = "transition"
                                                THEN "Start Progress"
                                                ELSE ""],
      g |-> NoGit,
      c |-> RunConfig("jira.example.com", "joe", <<>>, FALSE)] :
        a \in {"ann", "me"}, nr \in {"", "LPS-1"},
        k \in {"assign", "comment", "transition"}}
        \cup
    \* The configuration lacks the host or the user: run asks for them.
    {[o |-> [GivenOptions EXCEPT !.new = n, !.comment = <<"k">>],
      g |-> NoGit,
      c |-> RunConfig(h, u, <<>>, FALSE)] :
        n \in BOOLEAN, h \in {"", "jira.example.com"}, u \in {"", "joe"}}
        \cup
    \* Inside a repository, with and without --number.
    {[o |-> [GivenOptions EXCEPT !.number = nr, !.repo = TRUE,
                                 !.project = pr,
                                 !.assign = (k = "assign"),
                                 !.update = (k = "update"),
                                 !.browser = (k = "comment"),
                                 !.comment = IF k = "comment" THEN <<"k">>
                                             ELSE <<>>,
                                 !.transition = IF k = "transition"
                                                THEN "Start Progress"
                                                ELSE ""],
      g |-> g,
      c |-> RunConfig("jira.example.com", "joe", <<>>, FALSE)] :
        nr \in {"", "LPS-1"}, pr \in {"", "LPS"},
        k \in {"assign", "update", "comment", "transition"},
        g \in {[NoGit EXCEPT !.currentBranch = "ABC-7-fix"],
               [currentBranch |-> "master",
                commitMessage |-> "abc-7 fix typo",
                commitMessages |-> "abc-7 fix typo"],
               [NoGit EXCEPT !.currentBranch = "master"]}}

RunInit ==
    /\ \E r \in Runs :
          /\ options = r.o
          /\ git = r.g
          /\ given = r.o
          /\ jiraConfig = r.c
    /\ log = <<>>
    /\ pc = [p \in Pipelines \cup {"run"} |->
                IF p = "run" THEN "start" ELSE "idle"]
    /\ loc = [p \in Pipelines \cup {"run"} |-> EmptyLoc]
    /\ calls = [c \in Commands \cup {"run"} |-> <<>>]
    /\ prompts = [c \in Commands \cup {"run"} |-> <<>>]
    /\ cbCount = [c \in Commands |-> 0]
    /\ cbErr = [c \in Commands |-> Null]
    /\ answers = [c \in Commands \cup {"run"} |-> <<>>]
    /\ failed = [c \in Commands \cup {"run"} |-> NotFailed]
    /\ opened = {}
    /\ crashed = FALSE
    /\ assigning = NotAssigning
    /\ input = Undef
    /\ output = <<>>

RunNext ==
    \/ RunStart
    \/ LoginCb
    \/ SearchUsersCb
    \/ GithubUserCb
    \/ SearchUsersByNameCb
    \/ SelectUserCb
    \/ \E p \in PayloadPipelines :
          \/ ListIssueTypesCb(p)
          \/ GetProjectCb(p)
          \/ ListComponentsCb(p)
          \/ ListPrioritiesCb(p)
          \/ GetVersionsCb(p)
    \/ AddNewIssueCb
    \/ \E p \in {"update", "menu_update"} : UpdateIssueCb(p)
    \/ CommentFindIssueCb
    \/ AddCommentCb
    \/ TransitionListCb
    \/ TransitionFindIssueCb
    \/ TransitionPromptCb
    \/ TransitionIssueCb
    \/ MenuListCb
    \/ MenuFindIssueCb
    \/ MenuAnswerCb
    \/ AssignRequestCb

RunSpec == RunInit /\ [][RunNext]_vars

-----------------------------------------------------------------------------
(* Functions under study: the argument is drawn from a bounded set of      *)
(* values, the function is applied to it and again to its own result.      *)

\* No command runs while a function is studied.
StudyInit(inputs) ==
    /\ options = BaseOptions
    /\ jiraConfig = Config("joe", <<>>)
    /\ git = NoGit
    /\ given = options
    /\ log = <<>>
    /\ pc = [p \in Pipelines \cup {"run"} |->
                IF p = "run" THEN "done" ELSE "idle"]
    /\ loc = [p \in Pipelines \cup {"run"} |-> EmptyLoc]
    /\ calls = [c \in Commands \cup {"run"} |-> <<>>]
    /\ prompts = [c \in Commands \cup {"run"} |-> <<>>]
    /\ cbCount = [c \in Commands |-> 0]
    /\ cbErr = [c \in Commands |-> Null]
    /\ answers = [c \in Commands \cup {"run"} |-> <<>>]
    /\ failed = [c \in Commands \cup {"run"} |-> NotFailed]
    /\ opened = {}
    /\ crashed = FALSE
    /\ assigning = NotAssigning
    /\ input \in inputs
    /\ output = <<>>

StudyFrame ==
    UNCHANGED <<options, jiraConfig, pc, loc, calls, prompts, cbCount, cbErr,
                answers, failed, opened, crashed, assigning, input, git,
                given, log>>

\* The value trees deleteObjectEmptyValues_ is given: objects whose values
\* are scalars, objects of scalars or arrays of scalars.
PruneKeys == {"a", "b"}

PruneLeaves == {Undef, Str(""), Str("x")}

\* deleteObjectEmptyValues_ is applied to the object, which it changes in
\* place.
Prune ==
    /\ Len(output) < MaxApplications
    /\ output' = Append(output,
                        DeleteObjectEmptyValues(
                            IF output = <<>> THEN input
                            ELSE output[Len(output)]))
    /\ StudyFrame

\* The argument: an object whose values are scalars, objects of scalars or
\* arrays of scalars.
PruneInit ==
    LET inner ==
            PruneLeaves
                \cup {Obj(f) :
                         f \in UNION {[K -> PruneLeaves] : K \in SUBSET PruneKeys}}
                \cup {Arr(q) : q \in SeqsUpTo(PruneLeaves, MaxListLen)}
        trees == {Obj(f) :
                    f \in UNION {[K -> inner] : K \in SUBSET PruneKeys}}
    IN  StudyInit(trees)

PruneNext == Prune

PruneSpec == PruneInit /\ [][PruneNext]_vars

\* findFirstArrayValue_ is applied to a listing and a name; the names of
\* the listing differ from the name by case or by a suffix, and a name may
\* occur twice, with different ids.
FindInit ==
    LET names == {"Bug", "bug", "Bugfix"}
        elements == {Entity(n, id) : n \in names, id \in {"1", "2"}}
    IN  StudyInit([values : SeqsUpTo(elements, MaxListLen), search : names])

Find ==
    /\ output = <<>>
    /\ output' = <<FindFirstArrayValue(input.values, input.search)>>
    /\ StudyFrame

FindNext == Find

FindSpec == FindInit /\ [][FindNext]_vars

-----------------------------------------------------------------------------
(* Properties *)

ApiAt(c, i) == calls[c][i].api

HintOf(api) ==
    CASE api = "listIssueTypes" -> "No issue type found, try --type \"Bug\"."
      [] api = "listComponents" ->
            "No component found, try --component \"JavaScript\"."
      [] api = "listPriorities" ->
            "No priority found, try --priority \"Minor\"."
      [] api = "getVersions" -> "No version found, try --version \"0.1.0\"."

\* The calls of transitionIssue the transition command has issued.
Submissions ==
    {i \in 1..Len(calls["transition"]) :
        ApiAt("transition", i) = "transitionIssue"}

SubmittedFields(i) == calls["transition"][i].payload.o["fields"].o

MatchedFields == loc["transition"].transition.fieldsArray

PromptsFor(fieldId) ==
    {n \in 1..Len(prompts["transition"]) :
        prompts["transition"][n].field = fieldId}

\* The per-transition configuration of a field, read from jiraConfig.
HasConfig(field) ==
    /\ loc["transition"].name \in DOMAIN jiraConfig.transition
    /\ field.name \in DOMAIN jiraConfig.transition[loc["transition"].name].o

ConfigOf(field) ==
    jiraConfig.transition[loc["transition"].name].o[field.name]

HasStaticValue(field) == HasConfig(field) /\ ConfigOf(field) # Bool(TRUE)

IsPrompted(field) ==
    \/ ~HasConfig(field) /\ field.required
    \/ HasConfig(field) /\ ConfigOf(field) = Bool(TRUE)

\* C1: fail-fast.  Once a step of a command has reported an error, the
\* command has issued no remote call beyond those issued before the error,
\* and its completion callback was called with an error.
C1_FailFast ==
    \A c \in Commands :
        failed[c].at # -1 =>
            /\ Len(calls[c]) = failed[c].at
            /\ cbCount[c] = 1
            /\ cbErr[c] # Null

C1_Witness ==
    /\ options.new /\ options.version # ""
    /\ failed["new"].at = 3
    /\ cbErr["new"] = NoComponent
    /\ pc["new"] = "done"

\* C2: new issues listIssueTypes, getProject, listComponents, listPriorities
\* (priority given), getVersions (version given), addNewIssue in this order,
\* each after the one before it called back without error, and addNewIssue
\* with the payload assembled from the resolved entities.
ExpectedNewCalls ==
    <<"listIssueTypes", "getProject", "listComponents">>
        \o (IF options.priority # "" THEN <<"listPriorities">> ELSE <<>>)
        \o (IF options.version # "" THEN <<"getVersions">> ELSE <<>>)
        \o <<"addNewIssue">>

C2_NewOrder ==
    LET n == Len(calls["new"])
        m == Len(answers["new"])
    IN  /\ n <= Len(ExpectedNewCalls)
        /\ \A i \in 1..n : ApiAt("new", i) = ExpectedNewCalls[i]
        /\ m <= n /\ n <= m + 1
        /\ \A i \in 1..(n - 1) :
              answers["new"][i].err = Null /\ answers["new"][i].matched
        /\ \A i \in 1..n :
              ApiAt("new", i) = "addNewIssue" =>
                  LET f == calls["new"][i].payload.o["fields"].o
                      l == loc["new"]
                  IN  /\ f["issuetype"] = Obj("id" :> Str(l.issueType.id))
                      /\ f["project"] = Obj("id" :> Str(l.project.id))
                      /\ f["components"] =
                             Arr(<<Obj("id" :> Str(l.component.id))>>)
                      /\ ("priority" \in DOMAIN f) = (options.priority # "")
                      /\ ("versions" \in DOMAIN f) = (options.version # "")
                      /\ options.priority # "" =>
                             f["priority"] = Obj("id" :> Str(l.priority.id))
                      /\ options.version # "" =>
                             f["versions"] =
                                 Arr(<<Obj("id" :> Str(l.version.id))>>)

C2_Witness ==
    /\ Len(calls["new"]) = 6
    /\ ApiAt("new", 6) = "addNewIssue"
    /\ ApiAt("new", 4) = "listPriorities"
    /\ ApiAt("new", 5) = "getVersions"

\* C3: a listing of issue types, components, priorities or versions that
\* answers without error and without an element of the requested name ends
\* the pipeline with the hint of that kind.
C3_KindHint ==
    \A c \in Commands :
        \A i \in 1..Len(answers[c]) :
            LET a == answers[c][i]
            IN  (/\ a.api \in {"listIssueTypes", "listComponents",
                              "listPriorities", "getVersions"}
                 /\ a.err = Null
                 /\ ~a.matched) =>
                    /\ i = Len(answers[c])
                    /\ Len(calls[c]) = i
                    /\ cbCount[c] = 1
                    /\ cbErr[c] = HintOf(a.api)

C3_Witness ==
    /\ Len(answers["update"]) = 5
    /\ answers["update"][5].api = "getVersions"
    /\ answers["update"][5].err = Null
    /\ ~answers["update"][5].matched
    /\ cbErr["update"] = "No version found, try --version \"0.1.0\"."

\* C4: a remote error answered to a call of new, update or transition is the
\* error the completion callback of the command receives.
C4_RemoteErrorPassedThrough ==
    \A c \in {"new", "update", "transition"} :
        \A i \in 1..Len(answers[c]) :
            answers[c][i].err # Null =>
                cbCount[c] = 1 /\ cbErr[c] = answers[c][i].err

\* C5: when the listing listTransitions answers holds no transition named
\* exactly as requested, the command ends with the message that quotes the
\* requested name and transitionIssue is not called.
C5_InvalidTransition ==
    \A i \in 1..Len(answers["transition"]) :
        LET a == answers["transition"][i]
            requested == IF options.transition = "true"
                         THEN loc["transition"].name
                         ELSE options.transition
        IN  (a.api = "listTransitions" /\ a.err = Null /\ ~a.matched) =>
                /\ cbCount["transition"] = 1
                /\ cbErr["transition"] =
                       "\"" \o requested
                           \o "\" is not a valid transition, try another action."
                /\ Submissions = {}
                /\ Len(calls["transition"]) = i

C5_Witness ==
    /\ options.transition = "Start Progress"
    /\ Len(answers["transition"]) = 1
    /\ answers["transition"][1].err = Null
    /\ answers["transition"][1].ids = {"5"}
    /\ cbErr["transition"] =
           "\"Start Progress\" is not a valid transition, try another action."

\* C6: the transition id submitted to transitionIssue is the id of an element
\* of a listing that listTransitions answered earlier in the same command
\* for the same issue.
C6_SubmittedIdWasListed ==
    \A i \in Submissions :
        \E j \in 1..(i - 1) :
            /\ ApiAt("transition", j) = "listTransitions"
            /\ calls["transition"][j].key = calls["transition"][i].key
            /\ answers["transition"][j].err = Null
            /\ \E id \in answers["transition"][j].ids :
                  calls["transition"][i].payload.o["transition"] =
                      Obj("id" :> Str(id))

C6_Witness ==
    /\ options.transition = "true"
    /\ \E i \in Submissions :
          calls["transition"][i].payload.o["transition"] = Obj("id" :> Str("5"))

\* C7 as stated: a field of the matched transition with a configured value
\* other than true is submitted with exactly the configured value, and is
\* not prompted for.
C7_ConfiguredValueSubmittedVerbatim ==
    \A i \in Submissions :
        \A k \in 1..Len(MatchedFields) :
            LET field == MatchedFields[k]
            IN  HasStaticValue(field) =>
                    /\ field.id \in DOMAIN SubmittedFields(i)
                    /\ SubmittedFields(i)[field.id] = ConfigOf(field)
                    /\ PromptsFor(field.id) = {}

\* C7 amended: a field of the matched transition with a configured value
\* other than true is submitted with the configured value after the template
\* pass of compileObjectValuesTemplate_, required or not, and is not prompted
\* for.
C7_ConfigWins ==
    \A i \in Submissions :
        \A k \in 1..Len(MatchedFields) :
            LET field == MatchedFields[k]
            IN  HasStaticValue(field) =>
                    /\ field.id \in DOMAIN SubmittedFields(i)
                    /\ SubmittedFields(i)[field.id] =
                           CompileObjectValuesTemplate(ConfigOf(field), options,
                                                       jiraConfig)
                    /\ PromptsFor(field.id) = {}

C7_Witness ==
    /\ options.assignee = "ann"
    /\ \E i \in Submissions :
          \E k \in 1..Len(MatchedFields) :
              /\ MatchedFields[k].id = "assignee"
              /\ MatchedFields[k].required
              /\ HasStaticValue(MatchedFields[k])
              /\ ConfigOf(MatchedFields[k]) = Obj("name" :> Str("{{jira.user}}"))
              /\ SubmittedFields(i)["assignee"] = Obj("name" :> Str("joe"))

\* C8: a field of the matched transition that is not configured and is
\* required, or whose configuration is true, is prompted for exactly once,
\* and is submitted with the allowed value chosen, in a one-element list
\* exactly when its schema type is array.
C8_PromptedValueSubmitted ==
    \A i \in Submissions :
        \A k \in 1..Len(MatchedFields) :
            LET field == MatchedFields[k]
            IN  IsPrompted(field) =>
                    /\ Cardinality(PromptsFor(field.id)) = 1
                    /\ field.id \in DOMAIN SubmittedFields(i)
                    /\ \A n \in PromptsFor(field.id) :
                          LET chosen ==
                                  EntityValue(prompts["transition"][n].chosen)
                          IN  SubmittedFields(i)[field.id] =
                                  IF field.schemaType = "array"
                                  THEN Arr(<<chosen>>) ELSE chosen

C8_Witness ==
    \E i \in Submissions :
        \E k \in 1..Len(MatchedFields) :
            /\ MatchedFields[k].schemaType = "array"
            /\ MatchedFields[k].required
            /\ ~HasConfig(MatchedFields[k])
            /\ SubmittedFields(i)[MatchedFields[k].id] =
                   Arr(<<EntityValue(Entity("Done", "2"))>>)

\* C9: a field of the matched transition that is not configured and not
\* required is not prompted for and has no entry in the submitted fields,
\* but for the assignee entry the assignee merge wrote.
C9_OptionalFieldUnset ==
    \A i \in Submissions :
        \A k \in 1..Len(MatchedFields) :
            LET field == MatchedFields[k]
            IN  (~HasConfig(field) /\ ~field.required) =>
                    /\ PromptsFor(field.id) = {}
                    /\ \/ field.id \notin DOMAIN SubmittedFields(i)
                       \/ /\ field.id = "assignee"
                          /\ options.assignee # ""
                          /\ SubmittedFields(i)["assignee"] =
                                 Obj("name" :> Str(options.assignee))

C9_Witness ==
    \E i \in Submissions :
        /\ Len(MatchedFields) = 2
        /\ \A k \in 1..2 :
              ~HasConfig(MatchedFields[k]) /\ ~MatchedFields[k].required
        /\ "resolution" \notin DOMAIN SubmittedFields(i)

\* C10 as stated: the submitted payload carries the id of the matched
\* transition and, when there is an assignee, that assignee's name.
C10_TransitionIdAndAssignee ==
    \A i \in Submissions :
        /\ calls["transition"][i].payload.o["transition"] =
               Obj("id" :> Str(loc["transition"].transition.id))
        /\ options.assignee # "" =>
               /\ "assignee" \in DOMAIN SubmittedFields(i)
               /\ IsObj(SubmittedFields(i)["assignee"])
               /\ "name" \in DOMAIN SubmittedFields(i)["assignee"].o
               /\ SubmittedFields(i)["assignee"].o["name"] =
                      Str(options.assignee)

\* C10 amended: the submitted payload carries the id of the matched
\* transition and, when there is an assignee and no field with the id
\* assignee was configured or prompted for, that assignee's name.
AssigneeFieldExpanded ==
    \E k \in 1..Len(MatchedFields) :
        /\ MatchedFields[k].id = "assignee"
        /\ HasStaticValue(MatchedFields[k]) \/ IsPrompted(MatchedFields[k])

C10_TransitionIdAndMergedAssignee ==
    \A i \in Submissions :
        /\ calls["transition"][i].payload.o["transition"] =
               Obj("id" :> Str(loc["transition"].transition.id))
        /\ (options.assignee # "" /\ ~AssigneeFieldExpanded) =>
               /\ "assignee" \in DOMAIN SubmittedFields(i)
               /\ SubmittedFields(i)["assignee"] =
                      Obj("name" :> Str(options.assignee))

C10_Witness ==
    \E i \in Submissions :
        /\ options.assignee = "ann"
        /\ loc["transition"].transition.id = "4"
        /\ ~AssigneeFieldExpanded
        /\ calls["transition"][i].payload.o["transition"] = Obj("id" :> Str("4"))
        /\ SubmittedFields(i)["assignee"] = Obj("name" :> Str("ann"))

\* The calls of updateIssue command c has issued.
UpdateSubmissions(c) ==
    {i \in 1..Len(calls[c]) : ApiAt(c, i) = "updateIssue"}

\* A value that is not empty and holds nothing empty: no undefined, no '',
\* no object or array left without content.
RECURSIVE HoldsNoEmptyValue(_)
HoldsNoEmptyValue(v) ==
    CASE IsObj(v) ->
            /\ DOMAIN v.o # {}
            /\ \A k \in DOMAIN v.o : HoldsNoEmptyValue(v.o[k])
      [] IsArr(v) ->
            /\ v.a # <<>>
            /\ \A i \in 1..Len(v.a) : HoldsNoEmptyValue(v.a[i])
      [] OTHER -> v \notin {Undef, Str(""), Txt(<<>>)}

\* C11: every payload update submits with updateIssue holds no empty
\* value: no key at any depth holds undefined or '', and no field is left
\* whose value was empty (such as an assignee without a name).
C11_UpdatePayloadHoldsNoEmptyField ==
    \A c \in {"update", "transition"} :
        \A i \in UpdateSubmissions(c) :
            HoldsNoEmptyValue(calls[c][i].payload)

\* What deleteObjectEmptyValues_ makes of a value: the keys that held
\* undefined or '' are gone (in an array the index stays behind as a hole),
\* every other key is kept, its value treated alike.
RECURSIVE PrunedExactly(_, _)
PrunedExactly(before, after) ==
    CASE IsObj(before) ->
            /\ IsObj(after)
            /\ DOMAIN after.o =
                   {k \in DOMAIN before.o :
                       before.o[k] \notin {Undef, Str(""), Txt(<<>>)}}
            /\ \A k \in DOMAIN after.o : PrunedExactly(before.o[k], after.o[k])
      [] IsArr(before) ->
            /\ IsArr(after)
            /\ Len(after.a) = Len(before.a)
            /\ \A i \in 1..Len(before.a) :
                  IF before.a[i] \in {Undef, Str(""), Txt(<<>>)}
                  THEN after.a[i] = Undef
                  ELSE PrunedExactly(before.a[i], after.a[i])
      [] OTHER -> after = before

\* C12: deleteObjectEmptyValues_ removes exactly the keys, at every depth,
\* whose value is the scalar undefined or '', keeps every key whose value is
\* an object or an array, and applied again it changes nothing.
C12_PruneExactAndIdempotent ==
    /\ Len(output) >= 1 => PrunedExactly(input, output[1])
    /\ \A n \in 2..Len(output) : output[n] = output[1]

C12_Witness ==
    /\ Len(output) = 2
    /\ input = Obj(("a" :> Obj(("a" :> Str("")) @@ ("b" :> Str("x"))))
                   @@ ("b" :> Undef))
    /\ output[2] = Obj("a" :> Obj("b" :> Str("x")))

\* C13: the callback of assign reports the status of the response by the
\* table 204, 400, 401, 404, anything else; the PUT is issued once.
C13_AssignStatusTable ==
    /\ Len(assigning.puts) <= 1
    /\ Len(assigning.status) <= Len(assigning.puts)
    /\ \A n \in 1..Len(assigning.status) :
          LET r == assigning.status[n]
          IN  r.err = Null =>
                  /\ assigning.logged # <<>>
                  /\ assigning.logged[1] =
                         CASE r.statusCode = 204 ->
                                 "Issue assigned to " \o options.assignee
                           [] r.statusCode = 400 ->
                                 "There is a problem with the received user representation."
                           [] r.statusCode = 401 ->
                                 "Calling user has no permission to assign the issue."
                           [] r.statusCode = 404 ->
                                 "Either the issue or the user does not exist."
                           [] OTHER ->
                                 "There was an error trying to assign the issue."
                  /\ r.statusCode # 204 => Len(assigning.logged) = 1

C13_Witness ==
    /\ assigning.pc = "done"
    /\ assigning.puts = <<[number |-> "LPS-1", name |-> "ann"]>>
    /\ assigning.status = <<[err |-> Null, statusCode |-> 404]>>
    /\ assigning.logged = <<"Either the issue or the user does not exist.">>

\* The answers given to the menu of transitionWithQuestion_.
MenuAnswers ==
    {prompts["transition"][n].chosen :
        n \in {m \in 1..Len(prompts["transition"]) :
                  prompts["transition"][m].field = "transition"}}

WriteApis == {"addNewIssue", "updateIssue", "transitionIssue", "addComment"}

\* The apis of the calls command c has issued.
ApisOf(c) == {ApiAt(c, i) : i \in 1..Len(calls[c])}

\* C14: an assign choice of the menu, 'Assign to me' or 'Assign to
\* <assignee>', starts the update path (the lookups of update follow the
\* menu's two calls) and never calls transitionIssue.
C14_AssignChoiceInvokesUpdate ==
    (\E a \in {"joe", "ann"} :
        MenuAnswers \cap {Str(ASSIGN_TO_ME_MESSAGE),
                          Str(ASSIGN_TO_SOMEONE_MESSAGE \o " " \o a)} # {}) =>
        /\ Len(calls["transition"]) >= 3
        /\ ApiAt("transition", 3) = "listIssueTypes"
        /\ "transitionIssue" \notin ApisOf("transition")

\* C15: a transition selected in the menu is expanded and submitted from
\* the listing the menu fetched: the command issues listTransitions once.
C15_MenuTransitionListsOnce ==
    Cardinality({i \in 1..Len(calls["transition"]) :
                    ApiAt("transition", i) = "listTransitions"}) <= 1

\* C16: the cancel choice and 'Open in browser' of the menu issue no write
\* call and the menu calls back without error; an invocation that asks for
\* browser alone opens the issue and issues no remote call at all.
C16_CancelAndBrowserWriteNothing ==
    /\ MenuAnswers \cap {Str(CANCEL_MESSAGE), Str(OPEN_ISSUE_IN_BROWSER_MESSAGE)}
           # {} =>
           /\ ApisOf("transition") \cap WriteApis = {}
           /\ assigning.puts = <<>>
           /\ cbCount["transition"] = 1
           /\ cbErr["transition"] = Null
           /\ pc["menu"] = "done"
    /\ Str(OPEN_ISSUE_IN_BROWSER_MESSAGE) \in MenuAnswers =>
           opened = {options.jiraNumber}
    /\ Str(CANCEL_MESSAGE) \in MenuAnswers => opened = {}
    /\ (pc["run"] = "done" /\ options.browser /\ ~options.assign
           /\ options.comment = <<>>) =>
           /\ opened = {options.jiraNumber}
           /\ \A c \in Commands : calls[c] = <<>>
           /\ assigning.puts = <<>>

C16_Witness ==
    /\ MenuAnswers = {Str(OPEN_ISSUE_IN_BROWSER_MESSAGE)}
    /\ opened = {"LPS-1"}
    /\ Len(calls["transition"]) = 2
    /\ cbCount["transition"] = 1

\* The calls of addNewIssue and updateIssue command c has issued.
PayloadSubmissions(c) ==
    {i \in 1..Len(calls[c]) : ApiAt(c, i) \in {"addNewIssue", "updateIssue"}}

PayloadFields(c, i) == calls[c][i].payload.o["fields"].o

\* The lookup api of command c answered with the entity asked for.
Resolved(c, api) ==
    \E n \in 1..Len(answers[c]) :
        /\ answers[c][n].api = api
        /\ answers[c][n].err = Null
        /\ answers[c][n].matched

\* C17: with an empty priority (version) new and update never call
\* listPriorities (getVersions), and the submitted payload has the key
\* priority (versions) exactly when the entity was resolved.
C17_OptionalLookupSkipped ==
    \A c \in {"new", "update", "transition"} :
        /\ options.priority = "" => "listPriorities" \notin ApisOf(c)
        /\ options.version = "" => "getVersions" \notin ApisOf(c)
        /\ \A i \in PayloadSubmissions(c) :
              /\ ("priority" \in DOMAIN PayloadFields(c, i))
                     = Resolved(c, "listPriorities")
              /\ ("versions" \in DOMAIN PayloadFields(c, i))
                     = Resolved(c, "getVersions")

C17_Witness ==
    /\ options.update /\ options.priority = "" /\ options.version = "1.0"
    /\ \E i \in UpdateSubmissions("update") :
          /\ "priority" \notin DOMAIN PayloadFields("update", i)
          /\ "versions" \in DOMAIN PayloadFields("update", i)
    /\ "listPriorities" \notin ApisOf("update")

\* C18: the payload update submits has no project, the payload new submits
\* has the id of the resolved project.
C18_ProjectOnlyOnCreate ==
    /\ \A c \in {"update", "transition"} :
          \A i \in UpdateSubmissions(c) :
              "project" \notin DOMAIN PayloadFields(c, i)
    /\ \A i \in PayloadSubmissions("new") :
          /\ "project" \in DOMAIN PayloadFields("new", i)
          /\ PayloadFields("new", i)["project"] =
                 Obj("id" :> Str(loc["new"].project.id))

\* C19: a submitted payload has a reporter only when it is the payload of
\* new and the reporter is not the configured user; the payload of update
\* never has one.
C19_ReporterOnlyOnCreate ==
    /\ \A c \in {"update", "transition"} :
          \A i \in UpdateSubmissions(c) :
              "reporter" \notin DOMAIN PayloadFields(c, i)
    /\ \A i \in PayloadSubmissions("new") :
          /\ ("reporter" \in DOMAIN PayloadFields("new", i))
                 = (options.reporter # "" /\ options.reporter # jiraConfig.user)
          /\ "reporter" \in DOMAIN PayloadFields("new", i) =>
                 PayloadFields("new", i)["reporter"] =
                     Obj("name" :> Str(options.reporter))

\* C20: an update without a known project skips getProject and does not
\* stop before it has called back.
C20_UpdateWithoutProjectCallsBack ==
    \A p \in {"update", "menu_update"} :
        (pc[p] # "idle" /\ ~options.new /\ options.project = "") =>
            /\ "getProject" \notin ApisOf(Cmd(p))
            /\ ~crashed

-----------------------------------------------------------------------------
(* Properties of whole invocations, checked from the start of run *)

\* new was given a project and a title and no component.
NewWithoutComponent ==
    given.new /\ given.project # "" /\ given.title # ""
        /\ given.component = ""

\* new, once listComponents has answered, has ended with the hint for the
\* component; it has never called addNewIssue.
EndsWithoutComponent ==
    /\ "addNewIssue" \notin ApisOf("new")
    /\ \A i \in 1..Len(answers["new"]) :
           answers["new"][i].api = "listComponents" =>
               /\ Len(calls["new"]) = i
               /\ cbCount["new"] = 1
               /\ cbErr["new"] = HintOf("listComponents")

\* C21 as stated: new with a project and a title and no --component ends
\* with 'No component found, try --component "JavaScript".' and never calls
\* addNewIssue.
C21_NewWithoutComponentFails == NewWithoutComponent => EndsWithoutComponent

\* C21, amended: new with a project and a title, no --component and no
\* default component configured for the project ends with 'No component
\* found, try --component "JavaScript".' and never calls addNewIssue.
C21_NewWithoutAnyComponentFails ==
    (/\ NewWithoutComponent
     /\ Default(jiraConfig.default_issue_component, options.project) = "")
        => EndsWithoutComponent

C21_Witness ==
    /\ NewWithoutComponent
    /\ Default(jiraConfig.default_issue_component, options.project) = ""
    /\ ApisOf("new") = {"listIssueTypes", "getProject", "listComponents"}
    /\ cbCount["new"] = 1
    /\ cbErr["new"] = "No component found, try --component \"JavaScript\"."

\* C22: no retry.  A command calls each of addNewIssue, updateIssue,
\* transitionIssue and addComment at most once, assign sends at most one
\* PUT, and an endpoint whose call has failed is not called again by the
\* command.
C22_NoRetry ==
    /\ \A c \in Commands :
           \A i, j \in 1..Len(calls[c]) :
               (i < j /\ ApiAt(c, i) = ApiAt(c, j)) =>
                   /\ ApiAt(c, i) \notin WriteApis
                   /\ i <= Len(answers[c]) => answers[c][i].err = Null
    /\ Len(assigning.puts) <= 1
    /\ Len(assigning.status) <= 1

C22_Witness ==
    /\ given.update /\ given.transition = "Start Progress"
    /\ Len(answers["update"]) = 4
    /\ answers["update"][4].api = "updateIssue"
    /\ answers["update"][4].err # Null
    /\ cbCount["update"] = 1
    /\ Len(answers["transition"]) = 3
    /\ answers["transition"][3].api = "transitionIssue"
    /\ answers["transition"][3].err # Null
    /\ cbCount["transition"] = 1

\* The issue number the commands of the invocation are started with: the
\* number given, or what the setup of run read from git.
StartedNumber ==
    SetIssueNumber("", [given EXCEPT !.jiraNumber = given.number],
                   git).jiraNumber

\* C23: comment calls findIssue for the issue number first; addComment is
\* called only after findIssue answered without error, with the id of the
\* issue fetched and the comment with the replacements applied and the
\* signature appended; when findIssue fails addComment is never called and
\* the error is the one the callback receives.
C23_CommentFetchesThenSubmits ==
    LET c == calls["comment"]
        a == answers["comment"]
    IN  /\ Len(c) <= 2
        /\ Len(c) >= 1 =>
               ApiAt("comment", 1) = "findIssue" /\ c[1].key = StartedNumber
        /\ Len(c) = 2 =>
               /\ a[1].err = Null
               /\ ApiAt("comment", 2) = "addComment"
               /\ c[2].key = loc["comment"].issue.id
               /\ given.comment = <<"k">> =>
                      c[2].payload = Txt(<<"{markdown}", "[", "k", "]",
                                           "sig", "{markdown}">>)
        /\ (Len(a) >= 1 /\ a[1].err # Null) =>
               /\ Len(c) = 1
               /\ cbCount["comment"] = 1
               /\ cbErr["comment"] = a[1].err

C23_Witness ==
    /\ given.comment = <<"k">>
    /\ Len(calls["comment"]) = 2
    /\ calls["comment"][2].key = "1001"
    /\ cbCount["comment"] = 1
    /\ cbErr["comment"] = Null

\* C24: the failure of one command ends that command only: every other
\* command of the invocation goes on, the answer a command awaits will be
\* processed (the process has not ended under it).
C24_FailureAbortsOnlyItsCommand ==
    \A c \in Commands :
        (cbCount[c] = 0 /\ Len(answers[c]) < Len(calls[c])) => ~crashed

\* C25: new or update requested together with a transition and a message:
\* the description submitted by addNewIssue / updateIssue and the comment
\* submitted by transitionIssue are the ones each command submits when it
\* runs alone (the message with the replacements applied; the same with the
\* signature appended).
C25_NoInterferenceThroughMessage ==
    (given.message = <<"k">> /\ (given.new \/ given.update)) =>
        /\ \A c \in {"new", "update"} :
               \A i \in PayloadSubmissions(c) :
                   PayloadFields(c, i)["description"] = Txt(<<"[", "k", "]">>)
        /\ \A i \in Submissions :
               calls["transition"][i].payload.o["update"].o["comment"] =
                   Arr(<<Obj("add" :>
                       Obj("body" :> Txt(<<"{markdown}", "[", "k", "]", "sig",
                                           "{markdown}">>)))>>)

\* The calls of command c that take the issue number.
NumberedCalls(c) ==
    {i \in 1..Len(calls[c]) :
        ApiAt(c, i) \in {"findIssue", "listTransitions", "transitionIssue",
                          "updateIssue"}}

\* C26: every remote call of the transition command that names an issue,
\* those of the menu included, names the issue number the command was
\* started with, whatever the other commands of the invocation do in
\* between.
C26_TransitionTargetsOneIssue ==
    \A i \in NumberedCalls("transition") :
        calls["transition"][i].key = StartedNumber

\* Some command of the invocation has been started.
Started ==
    \/ \E c \in Commands : Len(calls[c]) > 0
    \/ assigning.puts # <<>>

\* C27: when the setup fails, one error message is shown and no command of
\* the invocation is started.
C27_SetupFailureStartsNothing ==
    failed["run"].at # -1 =>
        /\ ~Started
        /\ \E i \in 1..Len(log) : log[i] = failed["run"].err
        /\ pc["run"] = "done" => Len(log) = 1

\* C28: with --number given, every command of the invocation works on the
\* number given (new, which records the key of the issue it creates, left
\* aside); the number is read from git only when --number is omitted.
C28_SuppliedNumberUsed ==
    (given.number # "" /\ ~given.new) =>
        /\ \A c \in Commands :
               \A i \in NumberedCalls(c) : calls[c][i].key = given.number
        /\ \A i \in 1..Len(assigning.puts) :
               assigning.puts[i].number = given.number
        /\ opened \subseteq {given.number}

\* What an option is after the defaults of the project are applied.
Defaulted(value, defaults) ==
    IF value # "" THEN value ELSE Default(defaults, options.project)

\* The id of the entity of a name.
IdOf(U, name) == (CHOOSE e \in U : e.name = name).id

\* C29: the defaults of the project for component, issue type and version
\* are in place before any command issues its first call: every lookup is
\* matched against the defaulted name and the ids submitted are those of
\* the defaulted names.
C29_DefaultsBeforeLookups ==
    /\ Started =>
           /\ options.component =
                  Defaulted(given.component, jiraConfig.default_issue_component)
           /\ options.type =
                  Defaulted(given.type, jiraConfig.default_issue_type)
           /\ options.version =
                  Defaulted(given.version, jiraConfig.default_issue_version)
    /\ \A c \in {"new", "update"} :
           \A i \in PayloadSubmissions(c) :
               LET f == PayloadFields(c, i)
                   component ==
                       Defaulted(given.component,
                                 jiraConfig.default_issue_component)
                   type == Defaulted(given.type, jiraConfig.default_issue_type)
                   version ==
                       Defaulted(given.version,
                                 jiraConfig.default_issue_version)
               IN  /\ f["components"] =
                          Arr(<<Obj("id" :>
                                    Str(IdOf(ComponentUniverse, component)))>>)
                   /\ f["issuetype"] =
                          Obj("id" :> Str(IdOf(TypeUniverse, type)))
                   /\ version # "" =>
                          f["versions"] =
                              Arr(<<Obj("id" :>
                                        Str(IdOf(VersionUniverse, version)))>>)

C29_Witness ==
    /\ given.new /\ given.component = "" /\ given.type = ""
    /\ given.version = ""
    /\ \E i \in PayloadSubmissions("new") :
           /\ PayloadFields("new", i)["components"] =
                  Arr(<<Obj("id" :> Str("10"))>>)
           /\ PayloadFields("new", i)["issuetype"] = Obj("id" :> Str("1"))
           /\ PayloadFields("new", i)["versions"] =
                  Arr(<<Obj("id" :> Str("100"))>>)

\* C30: without --project, new and update are not refused for the lack of
\* a project: the project is taken from the stored configuration.
C30_ProjectDefaultedFromConfig ==
    (given.project = "" /\ (given.new \/ given.update)
        /\ jiraConfig.default_issue_component # NoDefaults) =>
        \A i \in 1..Len(log) :
            log[i] \notin {"Project name not found, try with --project.",
                           "Project name not found, try --project JIR."}

\* C31: the assignee given is searched in Jira first, under the name given
\* (aliases expanded); the GitHub user is looked up exactly when that search
\* found nobody; Jira is searched by the GitHub user's name exactly when the
\* lookup found a user.  One user found becomes the assignee without a
\* prompt; of several, one prompt is issued and the name chosen becomes the
\* assignee.
C31_AssigneeResolution ==
    LET c == calls["run"]
        a == answers["run"]
        users == loc["run"].choices
    IN  /\ Len(c) <= 3
        /\ Len(c) >= 1 =>
               /\ c[1].api = "searchUsers"
               /\ c[1].key = ExpandAliases(given).assignee
        /\ Len(a) >= 1 =>
               (Len(c) >= 2) = (a[1].err = Null /\ ~a[1].matched)
        /\ Len(c) >= 2 => c[2].api = "githubUser" /\ c[2].key = c[1].key
        /\ Len(a) >= 2 => (Len(c) = 3) = (a[2].err = Null /\ a[2].matched)
        /\ Len(c) = 3 => c[3].api = "searchUsersByName" /\ c[3].key = "joan"
        /\ Len(users) <= 1 => prompts["run"] = <<>>
        /\ (Len(users) = 1 /\ pc["run"] = "done") =>
               options.assignee = users[1]
        /\ Len(users) > 1 =>
               /\ Len(prompts["run"]) = 1
               /\ pc["run"] = "done" =>
                      /\ prompts["run"][1].chosen = Str(options.assignee)
                      /\ \E i \in 1..Len(users) : users[i] = options.assignee

C31_Witness ==
    /\ Len(calls["run"]) = 3
    /\ loc["run"].choices = <<"joan", "joe">>
    /\ pc["run"] = "done"
    /\ options.assignee = "joe"
    /\ given.assignee = "ann"

\* C32 as stated: an invocation asking for assign alone issues one remote
\* request, the PUT, and no listing, lookup or search.
C32_AssignIssuesOneRequest ==
    (/\ given.assign /\ ~given.new /\ ~given.update /\ ~given.browser
     /\ given.comment = <<>> /\ given.transition = "") =>
        /\ \A c \in DOMAIN calls : calls[c] = <<>>
        /\ Len(assigning.puts) <= 1
        /\ pc["run"] = "done" => Len(assigning.puts) = 1

\* C32: the assign command of an invocation asking for assign alone issues
\* one remote request, the PUT of the assignee's name on the issue, and no
\* command issues a listing or a lookup; the only other requests are those
\* of the user search of run's setup, issued only when --assignee was given
\* and the issue number is known.
C32_AssignCommandIssuesOnePut ==
    (/\ given.assign /\ ~given.new /\ ~given.update /\ ~given.browser
     /\ given.comment = <<>> /\ given.transition = "") =>
        /\ \A c \in Commands : calls[c] = <<>>
        /\ Len(assigning.puts) <= 1
        /\ (pc["run"] = "done" /\ jiraConfig.host # "") =>
               assigning.puts = <<[number |-> options.jiraNumber,
                                   name |-> options.assignee]>>
        /\ calls["run"] # <<>> =>
               given.assignee # "" /\ StartedNumber # ""
        /\ \A i \in 1..Len(calls["run"]) :
               calls["run"][i].api \in {"searchUsers", "githubUser",
                                        "searchUsersByName"}

C32_Witness ==
    /\ given.assign /\ ~given.new /\ ~given.update /\ ~given.browser
    /\ given.comment = <<>> /\ given.transition = ""
    /\ given.assignee = "ann"
    /\ Len(calls["run"]) = 1
    /\ assigning.pc = "done"
    /\ assigning.puts = <<[number |-> "LPS-1", name |-> "joe"]>>

\* C33: findFirstArrayValue_ returns the first element of the listing, in
\* listing order, whose name is exactly the name asked for, letter case
\* included, and nothing when there is no such element; an element whose
\* name only contains, starts with or folds to the name is never returned.
C33_FirstExactMatch ==
    output # <<>> =>
        LET value == output[1]
            values == input.values
            exact == {i \in 1..Len(values) : values[i].name = input.search}
        IN  /\ exact = {} <=> value = Undef
            /\ value # Undef =>
                   /\ value.name = input.search
                   /\ \E i \in exact :
                          /\ value = values[i]
                          /\ \A j \in exact : i <= j

C33_Witness ==
    /\ input.search = "Bug"
    /\ input.values = <<Entity("bug", "1"), Entity("Bug", "2")>>
    /\ output = <<Entity("Bug", "2")>>

\* C34: every command calls its completion callback once: never twice, and
\* once it has issued a call and every call and prompt it issued has been
\* answered, the callback has been called, with an error or a result.
C34_CallbackExactlyOnce ==
    \A c \in Commands :
        /\ cbCount[c] <= 1
        /\ (/\ calls[c] # <<>>
            /\ Len(answers[c]) = Len(calls[c])
            /\ \A i \in 1..Len(prompts[c]) : prompts[c][i].chosen # Undef) =>
               cbCount[c] = 1

\* C35: the field prompts of a transition are issued in the order of the
\* fields of the transition, one at a time, each after the one before it
\* was answered; transitionIssue is called only when every field to prompt
\* for has been prompted for and answered; while a prompt of the command is
\* pending no remote call of the command is in flight.
C35_PromptsInOrderBeforeSubmit ==
    LET asked == SelectSeq(prompts["transition"],
                           LAMBDA q : q.field # "transition")
        toAsk == SelectSeq(MatchedFields, IsPrompted)
    IN  /\ \A n \in 1..(Len(prompts["transition"]) - 1) :
               prompts["transition"][n].chosen # Undef
        /\ asked # <<>> =>
               /\ Len(asked) <= Len(toAsk)
               /\ \A n \in 1..Len(asked) : asked[n].field = toAsk[n].id
        /\ Submissions # {} =>
               /\ Len(asked) = Len(toAsk)
               /\ \A n \in 1..Len(asked) : asked[n].chosen # Undef
        /\ (\E n \in 1..Len(prompts["transition"]) :
                prompts["transition"][n].chosen = Undef) =>
               Len(answers["transition"]) = Len(calls["transition"])

C35_Witness ==
    /\ Submissions # {}
    /\ Len(prompts["transition"]) = 2
    /\ prompts["transition"][1].field = "assignee"
    /\ prompts["transition"][2].field = "resolution"
    /\ prompts["transition"][2].chosen # Undef

\* C36: the payload transition submits has update.comment, one 'add' entry
\* whose body is the message with the replacements applied and the signature
\* appended, exactly when a message was given.  When no field of the
\* transition wrote to the id assignee (none of that id is configured with a
\* value or prompted for), it has fields.assignee exactly when
\* options.assignee is not empty, and the name is options.assignee; a field
\* configured with a value replaces the entry.
C36_CommentAndAssigneeMerged ==
    \A i \in Submissions :
        LET update == calls["transition"][i].payload.o["update"].o
            fields == SubmittedFields(i)
            writers == {k \in 1..Len(MatchedFields) :
                           /\ MatchedFields[k].id = "assignee"
                           /\ \/ HasStaticValue(MatchedFields[k])
                              \/ IsPrompted(MatchedFields[k])}
        IN  /\ ("comment" \in DOMAIN update) = (given.message # <<>>)
            /\ given.message # <<>> =>
                   update["comment"] =
                       Arr(<<Obj("add" :> Obj("body" :>
                           Txt(ExpandComment(
                                   ApplyReplacements(given.message)))))>>)
            /\ writers = {} =>
                   /\ ("assignee" \in DOMAIN fields) = (options.assignee # "")
                   /\ options.assignee # "" =>
                          fields["assignee"] =
                              Obj("name" :> Str(options.assignee))
            /\ \A k \in writers :
                   HasStaticValue(MatchedFields[k]) =>
                       fields["assignee"] =
                           CompileObjectValuesTemplate(
                               ConfigOf(MatchedFields[k]), options, jiraConfig)

C36_Witness ==
    \E i \in Submissions :
        /\ given.message = <<"k">>
        /\ options.assignee = "joe"
        /\ \A k \in 1..Len(MatchedFields) : MatchedFields[k].id # "assignee"
        /\ SubmittedFields(i)["assignee"] = Obj("name" :> Str("joe"))
        /\ "comment" \in DOMAIN calls["transition"][i].payload.o["update"].o

\* C37: the payload new submits to addNewIssue is the payload as assembled,
\* with description and summary present also when they are '' (no message,
\* no title); the payload update submits to updateIssue is the assembled
\* payload with the empty values deleted.
C37_PruningOnUpdateOnly ==
    /\ \A i \in PayloadSubmissions("new") :
          /\ calls["new"][i].payload =
                 Assemble(options, jiraConfig, loc["new"])
          /\ PayloadFields("new", i)["description"] =
                 Txt(IF given.message = <<>> THEN <<>>
                     ELSE ApplyReplacements(given.message))
          /\ PayloadFields("new", i)["summary"] = Str(given.title)
    /\ \A i \in UpdateSubmissions("update") :
          PrunedExactly(Assemble(options, jiraConfig, loc["update"]),
                        calls["update"][i].payload)
    /\ \A i \in UpdateSubmissions("transition") :
          PrunedExactly(Assemble(options, jiraConfig, loc["menu_update"]),
                        calls["transition"][i].payload)

C37_Witness ==
    /\ given.title = "" /\ given.message = <<>>
    /\ \E i \in PayloadSubmissions("new") :
          /\ PayloadFields("new", i)["summary"] = Str("")
          /\ PayloadFields("new", i)["description"] = Txt(<<>>)

\* C38: when the stored configuration lacks the host, the user or the
\* password, the credentials are asked for before any remote call is made,
\* and once they are entered the commands asked for are started.
C38_LoginThenContinue ==
    (\E i \in 1..Len(log) : log[i] = "Jira plugin not configured.") =>
        /\ pc["run"] = "login" =>
               /\ \A c \in DOMAIN calls : calls[c] = <<>>
               /\ assigning.puts = <<>>
        /\ pc["run"] = "done" =>
               /\ given.comment # <<>> => calls["comment"] # <<>>
               /\ (given.new /\ options.project # "") => calls["new"] # <<>>

\* C39: with no project after the setup, new and update issue no remote
\* call and run emits the warning 'Project name not found' of the command,
\* once; with no issue number after the setup, transition issues no remote
\* call and no prompt and run emits the warning 'Skipping JIRA transition',
\* once.  The commands call nothing back.
C39_CommandsGated ==
    LET Warned(message) == {i \in 1..Len(log) : log[i] = message}
        started == pc["run"] = "done" /\ jiraConfig.host # ""
        Gated(c, message) ==
            /\ calls[c] = <<>>
            /\ prompts[c] = <<>>
            /\ cbCount[c] = 0
            /\ started => Cardinality(Warned(message)) = 1
    IN  /\ (given.new /\ options.project = "" /\ pc["run"] = "done") =>
               Gated("new", "Project name not found, try with --project.")
        /\ (given.update /\ options.project = "" /\ pc["run"] = "done") =>
               Gated("update", "Project name not found, try --project JIR.")
        /\ (given.transition # "" /\ StartedNumber = ""
                /\ pc["run"] = "done") =>
               Gated("transition",
                     "Skipping JIRA transition, issue number not specified.")

C39_Witness ==
    /\ given.transition = "Start Progress"
    /\ StartedNumber = ""
    /\ pc["run"] = "done"
    /\ calls["transition"] = <<>>
    /\ log = <<"Skipping JIRA transition, issue number not specified.">>

\* C40: when no assignee was given on the command line, or no issue number
\* is known after the setup has read git, the setup issues no user search
\* and no GitHub lookup and asks nothing, and options.assignee stays what
\* the start of run made it: the assignee given with its alias expanded,
\* else the user configured at that time.  (Later only the menu's 'Assign to
\* me' changes it.)
C40_SearchSkipped ==
    /\ []((given.assignee = "" \/ StartedNumber = "") =>
             /\ calls["run"] = <<>>
             /\ answers["run"] = <<>>
             /\ prompts["run"] = <<>>
             /\ (\/ pc["run"] = "login"
                 \/ /\ pc["run"] = "done"
                    /\ \A i \in 1..Len(log) :
                          log[i] # "Jira plugin not configured."
                    /\ Str(ASSIGN_TO_ME_MESSAGE) \notin MenuAnswers) =>
                    options.assignee =
                        IF given.assignee # ""
                        THEN ExpandAliases(given).assignee
                        ELSE jiraConfig.user)
    /\ [][((given.assignee = "" \/ StartedNumber = "")
              /\ pc["run"] = "login") =>
                options'.assignee = options.assignee]_vars

C40_Witness ==
    /\ given.assignee = "me"
    /\ StartedNumber = ""
    /\ pc["run"] = "done"
    /\ calls["run"] = <<>>
    /\ options.assignee = "joe"
    /\ calls["comment"] # <<>>

====
